---- MODULE Spec2Model ----
(***************************************************************************)
(* Provider registry, adapters and ordered failover of the review          *)
(* pipeline (backend/src/services/ai).                                     *)
(*                                                                         *)
(* The registry (AIServiceFactory) is process-wide state shared by all     *)
(* requests.  JavaScript runs every synchronous stretch of code to         *)
(* completion, so one action is one stretch between two suspension points: *)
(* the only suspension point of the pipeline is the await on the upstream  *)
(* call made by an adapter's generateCompletion.                           *)
(***************************************************************************)
EXTENDS Integers, Sequences, FiniteSets, TLC

\* ---- bounds ----
MaxInst == 3        \* adapter objects constructed in one behaviour
MaxReqs == 1        \* requests in progress at the same time
MaxReply == 4       \* characters of a reply handed to the response parser
MaxId == 3          \* pieces of a model id
MaxText == 4        \* characters of a text handed to the token counter
MaxBudget == 2      \* largest token budget left by the reserve
MaxFile == 5        \* characters of a file handed to the context slicer
MaxContext == 1     \* largest linesBefore and linesAfter
MaxWindow == 3      \* largest maxTotalLines
MaxChars == 3       \* largest maxCharacters
MaxSuggestions == 2 \* suggestions of a review handed to the scan
MaxMentions == 2    \* 'line n' mentions in the explanation of a review
MaxClock == 1       \* latest reading of Date.now() during one scan
MaxThreads == 2     \* threads in a list, and their ids
MaxStamp == 1       \* latest updatedAt of a thread
MaxLines == 4       \* lines of the file whose threads are validated
MaxOps == 2         \* operations ever put in the sync queue
MaxRuns == 2        \* runs of sync() ever begun by one sync manager

\* ---- identifiers ----
providers == <<"openai", "openrouter", "bedrock">>
AIProvider == {providers[i] : i \in 1..Len(providers)}
\* "" stands for an absent (undefined or empty, hence falsy) identifier
ProviderArgs == AIProvider \cup {"", "unknown"}
EnvProviders == {"", "openrouter", "unknown"}
CacheKeys == (ProviderArgs \cup EnvProviders) \ {""}
Reqs == 1..MaxReqs

\* ---- errors: msg is the message text, names the provider name the text
\* carries ("none" when it carries none), from the adapter object whose call
\* created the error object (0: created by the registry itself) ----
NoError == [msg |-> "none", names |-> "none", from |-> 0]
UnknownProviderError(sel) == [msg |-> "Unknown AI provider", names |-> sel, from |-> 0]
SdkConstructorError == [msg |-> "sdk constructor failed", names |-> "none", from |-> 0]
NoServicesError == [msg |-> "No AI services available", names |-> "none", from |-> 0]
AllFailedError == [msg |-> "All AI services failed", names |-> "none", from |-> 0]
NotAvailableError(s) ==
  [msg |-> "service is not available or not configured", names |-> s.name, from |-> s.id]
ClientNotInitializedError(s) ==
  [msg |-> "client not initialized", names |-> s.name, from |-> s.id]

\* ---- state ----
\* process.env is read, never written, by the program: every call takes the
\* environment e it finds (AI_PROVIDER and which credentials are present).
\* An adapter object is a record: id is its identity (the objects are numbered
\* in the order they are constructed), the other fields are set by the
\* constructor and never written again.
VARIABLES
  instances,  \* AIServiceFactory.instances: provider id -> adapter object (NoService: no entry)
  allocated,  \* number of adapter objects constructed so far
  handed,     \* history: ids of the objects getService returned per provider id since the last clearInstances
  retired,    \* history: the objects that were cached when clearInstances was called
  req,        \* per request: position and locals of generateReview / generateReviewWithFallback
  inflight,   \* generateCompletion calls awaiting their upstream reply
  lastCall,   \* the direct registry call made by the last step and what it returned
  built,      \* the adapter constructed on its own by the last step, and its isAvailable()
  parsed,     \* the last reply handed to parseReviewResponse and what came back
  counted,    \* the last call of a tokenCounter function and what came back
  split,      \* splitIntoChunks: its arguments, locals and position in the loop
  sliced,     \* the last call of sliceContext and what came back
  scanned,    \* the last POST /scan: the review it got and what it answered
  merged,     \* the last call of mergeThreads and what came back
  suggested,  \* the last call of suggestNonOverlappingRange and what came back
  queue,      \* the sync queue in localStorage
  syncStatus, \* the sync status in localStorage
  syncInterval, \* whether the interval timer of the sync manager is set
  runs,       \* the runs of sync(): where each stands, its copy of the queue
  issued,     \* how many operation ids crypto.randomUUID has given out
  sends,      \* for each operation, the runs that sent it to the backend
  succeeded,  \* for each operation, how often the backend accepted it
  failed      \* for each operation, how often sending it failed

syncVars == <<queue, syncStatus, syncInterval, runs, issued, sends, succeeded, failed>>

utilVars == <<sliced, scanned, merged, suggested, syncVars>>

calcVars == <<built, parsed, counted, split, utilVars>>

vars == <<instances, allocated, handed, retired, req, inflight, lastCall,
          built, parsed, counted, split, sliced, scanned, merged, suggested,
          queue, syncStatus, syncInterval, runs, issued, sends, succeeded, failed>>

\* ---- adapters ----
NoService == [id |-> 0, name |-> "none", client |-> FALSE, apiKey |-> FALSE]

\* new OpenAI({apiKey}) is only run with a key; sdkThrows: the constructors of
\* the SDK clients throw in this environment
OpenAIServiceThrows(e, sdkThrows) == e.OPENAI_API_KEY /\ sdkThrows

OpenAIService(id, e, sdkThrows) ==
  [id |-> id, name |-> "openai", client |-> e.OPENAI_API_KEY, apiKey |-> e.OPENAI_API_KEY]

OpenRouterService(id, e, sdkThrows) ==
  [id |-> id, name |-> "openrouter", client |-> FALSE, apiKey |-> e.OPENROUTER_API_KEY]

\* initializeClient catches the SDK constructor's exception and leaves client null
BedrockService(id, e, sdkThrows) ==
  [id |-> id, name |-> "bedrock", client |-> ~sdkThrows, apiKey |-> FALSE]

isAvailable(s) ==
  CASE s.name = "openai" -> s.client
    [] s.name = "openrouter" -> s.apiKey
    [] s.name = "bedrock" -> s.client

\* ---- registry ----
SelectedProvider(provider, e) ==
  IF provider # "" THEN provider
  ELSE IF e.AI_PROVIDER # "" THEN e.AI_PROVIDER
  ELSE "openai"

\* reg is the registry state [instances, allocated, handed]
Registry == [instances |-> instances, allocated |-> allocated, handed |-> handed]

\* return service, noting the returned object in the history
Return(reg, selectedProvider, service) ==
  [reg |-> [reg EXCEPT !.handed[selectedProvider] = @ \cup {service.id}],
   service |-> service, threw |-> NoError]

Throw(reg, error) == [reg |-> reg, service |-> NoService, threw |-> error]

\* the switch statement, instances.set and return
CreateNewInstance(reg, selectedProvider, e, sdkThrows) ==
  LET id == reg.allocated + 1
      set(service) ==
        Return([reg EXCEPT !.instances[selectedProvider] = service, !.allocated = id],
               selectedProvider, service)
  IN CASE selectedProvider = "openai" ->
            IF OpenAIServiceThrows(e, sdkThrows) THEN Throw(reg, SdkConstructorError)
            ELSE set(OpenAIService(id, e, sdkThrows))
       [] selectedProvider = "openrouter" -> set(OpenRouterService(id, e, sdkThrows))
       [] selectedProvider = "bedrock" -> set(BedrockService(id, e, sdkThrows))
       [] OTHER -> Throw(reg, UnknownProviderError(selectedProvider))

getServiceUncached(reg, provider, e, sdkThrows) ==
  CreateNewInstance(reg, SelectedProvider(provider, e), e, sdkThrows)

getServiceDefaultsUnknown(reg, provider, e, sdkThrows) ==
  LET selectedProvider == SelectedProvider(provider, e) IN
  IF reg.instances[selectedProvider] # NoService
  THEN Return(reg, selectedProvider, reg.instances[selectedProvider])
  ELSE IF selectedProvider \in AIProvider
  THEN CreateNewInstance(reg, selectedProvider, e, sdkThrows)
  ELSE LET service == OpenRouterService(reg.allocated + 1, e, sdkThrows) IN
       Return([reg EXCEPT !.instances[selectedProvider] = service,
                          !.allocated = service.id], selectedProvider, service)

getService(reg, provider, e, sdkThrows) ==
  LET selectedProvider == SelectedProvider(provider, e) IN
  IF reg.instances[selectedProvider] # NoService
  THEN Return(reg, selectedProvider, reg.instances[selectedProvider])
  ELSE CreateNewInstance(reg, selectedProvider, e, sdkThrows)

\* one iteration of the for loop: the try block, and the catch that swallows
\* whatever getService threw
availableAfterUnfiltered(available, g) ==
  IF g.threw # NoError THEN available ELSE Append(available, g.service)

availableAfter(available, g) ==
  IF g.threw # NoError THEN available
  ELSE IF isAvailable(g.service) THEN Append(available, g.service)
  ELSE available

RECURSIVE availableLoop(_, _, _, _, _)
availableLoop(reg, available, i, e, sdkThrows) ==
  IF i > Len(providers) THEN [reg |-> reg, available |-> available, threw |-> NoError]
  ELSE LET g == getService(reg, providers[i], e, sdkThrows) IN
       availableLoop(g.reg, availableAfter(available, g), i + 1, e, sdkThrows)

getAvailableServices(reg, e, sdkThrows) == availableLoop(reg, <<>>, 1, e, sdkThrows)

clearInstancesKeeps(m) == m

clearInstances(m) == [k \in DOMAIN m |-> NoService]

\* ---- an adapter's review (BaseAIService) ----
\* replies of the upstream service: "ok" a reply with content, "rejected" the
\* SDK or transport call rejects, "http" a non-2xx status
Outcomes == {"ok", "rejected", "http"}

\* the part of generateCompletion before its await: the guard on the client
generateCompletionStart(s) ==
  IF ~isAvailable(s)
  THEN [status |-> "threw", error |-> ClientNotInitializedError(s)]
  ELSE [status |-> "pending", error |-> NoError]

\* the part of generateCompletion after its await.  Only the errors the
\* adapter creates itself name the provider in their text; what the SDK or
\* fetch rejects with is passed on as it is.  Only OpenRouterService looks at
\* the status itself, the SDKs of the other two reject on a non-2xx status.
generateCompletionSettle(s, outcome) ==
  CASE outcome = "ok" -> [ok |-> TRUE, error |-> NoError]
    [] outcome = "rejected" ->
         [ok |-> FALSE, error |-> [msg |-> "upstream rejected", names |-> "none", from |-> s.id]]
    [] outcome = "http" ->
         IF s.name = "openrouter"
         THEN [ok |-> FALSE, error |-> [msg |-> "API error", names |-> s.name, from |-> s.id]]
         ELSE [ok |-> FALSE, error |-> [msg |-> "upstream rejected", names |-> "none", from |-> s.id]]

NoResult == [provider |-> "none"]

\* review up to its first await: status "threw" (with the error) or "pending";
\* completions counts the generateCompletion calls made, logged is the
\* provider named by console.error
reviewStartUnchecked(s) ==
  LET g == generateCompletionStart(s) IN
  [status |-> g.status, error |-> g.error, completions |-> 1,
   logged |-> IF g.status = "threw" THEN s.name ELSE "none"]

reviewStart(s) ==
  IF ~isAvailable(s)
  THEN [status |-> "threw", error |-> NotAvailableError(s), completions |-> 0,
        logged |-> "none"]
  ELSE LET g == generateCompletionStart(s) IN
       [status |-> g.status, error |-> g.error, completions |-> 1,
        logged |-> IF g.status = "threw" THEN s.name ELSE "none"]

\* review after the await: the parsed reply tagged with the provider, or the
\* catch block (console.error, throw error); raised is what generateCompletion
\* threw
reviewSettleWraps(s, outcome) ==
  LET g == generateCompletionSettle(s, outcome) IN
  IF g.ok
  THEN [status |-> "returned", result |-> [provider |-> s.name], error |-> NoError,
        raised |-> NoError, logged |-> "none"]
  ELSE [status |-> "threw", result |-> NoResult,
        error |-> [msg |-> g.error.msg, names |-> s.name, from |-> s.id],
        raised |-> g.error, logged |-> s.name]

reviewSettle(s, outcome) ==
  LET g == generateCompletionSettle(s, outcome) IN
  IF g.ok
  THEN [status |-> "returned", result |-> [provider |-> s.name], error |-> NoError,
        raised |-> NoError, logged |-> "none"]
  ELSE [status |-> "threw", result |-> NoResult, error |-> g.error,
        raised |-> g.error, logged |-> s.name]

\* ---- requests ----
\* invoked lists the review calls of the request in the order they were made:
\* the adapter, what its isAvailable() says, the generateCompletion calls made
IdleReq ==
  [pc |-> "idle", fn |-> "none", services |-> <<>>, idx |-> 0,
   lastError |-> NoError, invoked |-> <<>>, result |-> NoResult, error |-> NoError,
   raised |-> NoError, logged |-> "none"]

Invocation(s, st) ==
  [service |-> s.id, available |-> isAvailable(s), completions |-> st.completions,
   outcome |-> IF st.status = "pending" THEN "pending" ELSE "failed"]

\* generateReview: getService() then review, nothing is caught
generateReviewBegin(reg, e, sdkThrows) ==
  LET g == getService(reg, "", e, sdkThrows)
      rq == [IdleReq EXCEPT !.fn = "generateReview"]
  IN IF g.threw # NoError
     THEN [reg |-> g.reg, rq |-> [rq EXCEPT !.pc = "done", !.error = g.threw]]
     ELSE LET st == reviewStart(g.service) IN
          [reg |-> g.reg,
           rq |-> [rq EXCEPT !.pc = IF st.status = "pending" THEN "awaiting" ELSE "done",
                             !.services = <<g.service>>, !.idx = 1,
                             !.invoked = <<Invocation(g.service, st)>>,
                             !.error = st.error, !.logged = st.logged]]

\* the catch block of the loop: lastError = error
CatchErrorKeepsFirst(lastError, error) == IF lastError = NoError THEN error ELSE lastError

CatchError(lastError, error) == error

NextCandidateSkips(k) == k + 2

NextCandidate(k) == k + 1

NoServicesCheckSkipped(services) == FALSE

NoServicesCheck(services) == Len(services) = 0

\* the for loop from candidate k on, up to the next await or to the final throw
RECURSIVE fallbackLoop(_, _)
fallbackLoop(rq, k) ==
  IF k > Len(rq.services)
  THEN [rq EXCEPT !.pc = "done", !.idx = k,
                  !.error = IF rq.lastError # NoError THEN rq.lastError ELSE AllFailedError]
  ELSE LET s == rq.services[k]
           st == reviewStart(s)
           rq1 == [rq EXCEPT !.idx = k, !.invoked = Append(@, Invocation(s, st)),
                             !.logged = st.logged]
       IN IF st.status = "pending"
          THEN [rq1 EXCEPT !.pc = "awaiting"]
          ELSE fallbackLoop([rq1 EXCEPT !.lastError = CatchError(@, st.error)],
                            NextCandidate(k))

generateReviewWithFallbackBegin(reg, e, sdkThrows) ==
  LET a == getAvailableServices(reg, e, sdkThrows)
      rq == [IdleReq EXCEPT !.fn = "generateReviewWithFallback", !.services = a.available]
  IN IF NoServicesCheck(a.available)
     THEN [reg |-> a.reg, rq |-> [rq EXCEPT !.pc = "done", !.error = NoServicesError]]
     ELSE [reg |-> a.reg, rq |-> fallbackLoop(rq, 1)]

SetLast(invoked, outcome) ==
  [invoked EXCEPT ![Len(invoked)].outcome = outcome]

\* the awaited review of the request settles
requestResume(rq, outcome) ==
  LET rs == reviewSettle(rq.services[rq.idx], outcome)
      rq1 == [rq EXCEPT !.invoked = SetLast(@, IF rs.status = "returned" THEN "ok" ELSE "failed"),
                        !.raised = rs.raised, !.logged = rs.logged]
  IN IF rs.status = "returned"
     THEN [rq1 EXCEPT !.pc = "done", !.result = rs.result]
     ELSE IF rq.fn = "generateReview"
     THEN [rq1 EXCEPT !.pc = "done", !.error = rs.error]
     ELSE fallbackLoop([rq1 EXCEPT !.lastError = CatchError(@, rs.error)],
                       NextCandidate(rq.idx))

\* the review calls the request has started and not yet seen settle
AwaitedCallsFanOut(r, rq) ==
  IF rq.pc = "awaiting"
  THEN {[req |-> r, service |-> rq.services[k].id] : k \in rq.idx..Len(rq.services)}
  ELSE {}

AwaitedCalls(r, rq) ==
  IF rq.pc = "awaiting" THEN {[req |-> r, service |-> rq.services[rq.idx].id]} ELSE {}

\* ---- an adapter constructed on its own ----
\* The credentials BedrockService names are those of an AWS profile
\* (fromIni({profile})): they live in the shared credentials file, not in
\* process.env.  AWS_PROFILE_CREDENTIALS: the profile exists and holds keys.
AdapterEnvs ==
  [AI_PROVIDER : EnvProviders, OPENAI_API_KEY : BOOLEAN, OPENROUTER_API_KEY : BOOLEAN,
   AWS_PROFILE_CREDENTIALS : BOOLEAN]

\* new OpenAIService(), new OpenRouterService(), new BedrockService()
NewAdapter(name, e, sdkThrows) ==
  CASE name = "openai" ->
         IF OpenAIServiceThrows(e, sdkThrows)
         THEN [threw |-> SdkConstructorError, service |-> NoService]
         ELSE [threw |-> NoError, service |-> OpenAIService(1, e, sdkThrows)]
    [] name = "openrouter" ->
         [threw |-> NoError, service |-> OpenRouterService(1, e, sdkThrows)]
    [] name = "bedrock" ->
         [threw |-> NoError, service |-> BedrockService(1, e, sdkThrows)]

NoAdapter ==
  [pc |-> "none", name |-> "none",
   e |-> [AI_PROVIDER |-> "", OPENAI_API_KEY |-> FALSE, OPENROUTER_API_KEY |-> FALSE,
          AWS_PROFILE_CREDENTIALS |-> FALSE],
   sdkThrows |-> FALSE, threw |-> NoError, service |-> NoService, available |-> FALSE]

\* ---- the response parser (promptBuilder.parseReviewResponse) ----
\* A string is a sequence of characters.  A reply is written with the
\* characters "{" and "}", "x" (any other visible character), " " (white
\* space) and "J": the text of one member list, such as
\* "explanation": "...", "suggestions": [...], "diff": "...", whose values the
\* record members gives.  Braces inside the string values of J lie between
\* the braces of the object and do not move the first "{" or the last "}".
ReplyChars == {"{", "}", "x", " ", "J"}

ReplyTexts == UNION {[1..n -> ReplyChars] : n \in 0..MaxReply}

\* JavaScript values: t is the type, s the characters of a string or the
\* elements of an array
Undefined == [t |-> "undefined", s |-> <<>>]
Str(s) == [t |-> "string", s |-> s]
Arr(s) == [t |-> "array", s |-> s]
Num == [t |-> "number", s |-> <<"5">>]

Placeholder == Str(<<"No explanation provided.">>)

EmptyObject == [explanation |-> Undefined, suggestions |-> Undefined, diff |-> Undefined]

Members ==
  [explanation : {Undefined, Str(<<>>), Str(<<"e">>), Num},
   suggestions : {Undefined, Arr(<<>>), Arr(<<"s">>), Str(<<"s">>)},
   diff : {Undefined, Str(<<>>), Str(<<"d">>)}]

Replies ==
  {r \in [text : ReplyTexts, members : Members] :
     (\E i \in 1..Len(r.text) : r.text[i] = "J") \/ r.members = EmptyObject}

\* a value that counts as true in a condition (the number 5, any array, a
\* string that is not empty)
Truthy(v) == v.t \in {"number", "array"} \/ (v.t = "string" /\ v.s # <<>>)

\* v || other
OrElseNullish(v, other) == IF v # Undefined THEN v ELSE other

OrElse(v, other) == IF Truthy(v) THEN v ELSE other

\* response.match(/\{[\s\S]*\}/): the match starts at the first "{" and, the
\* star being greedy, ends at the last "}" of the text; null ([found |->
\* FALSE]) when no "}" follows the first "{"
Braces(text, c) == {i \in 1..Len(text) : text[i] = c}

Min(S) == CHOOSE i \in S : \A j \in S : i <= j

Max(S) == CHOOSE i \in S : \A j \in S : i >= j

jsonMatch(text) ==
  LET open == Braces(text, "{")
      close == Braces(text, "}") IN
  IF open = {} \/ close = {} \/ Max(close) < Min(open)
  THEN [found |-> FALSE, span |-> <<>>]
  ELSE [found |-> TRUE, span |-> SubSeq(text, Min(open), Max(close))]

\* JSON.parse of a span that starts with "{" and ends with "}": white space
\* between the tokens is skipped; the span is an object when what is left is
\* "{}" or "{" J "}", and a SyntaxError is thrown otherwise
NoSpace(text) == SelectSeq(text, LAMBDA c : c # " ")

JSONParse(span, members) ==
  IF NoSpace(span) = <<"{", "}">> THEN [threw |-> FALSE, value |-> EmptyObject]
  ELSE IF NoSpace(span) = <<"{", "J", "}">> THEN [threw |-> FALSE, value |-> members]
  ELSE [threw |-> TRUE, value |-> EmptyObject]

\* the fallback after the try statement
PlainText(response) ==
  [threw |-> FALSE, explanation |-> Str(response.text), suggestions |-> Arr(<<>>),
   diff |-> Undefined]

CatchParseErrorRethrows(response) == [PlainText(response) EXCEPT !.threw = TRUE]

\* the catch block warns and falls through to the fallback
CatchParseError(response) == PlainText(response)

parseReviewResponse(response) ==
  LET jsonMatched == jsonMatch(response.text)
      parsedJson == JSONParse(jsonMatched.span, response.members) IN
  IF ~jsonMatched.found THEN PlainText(response)
  ELSE IF parsedJson.threw THEN CatchParseError(response)
  ELSE [threw |-> FALSE,
        explanation |-> OrElse(parsedJson.value.explanation, Placeholder),
        suggestions |-> IF parsedJson.value.suggestions.t = "array"
                        THEN parsedJson.value.suggestions ELSE Arr(<<>>),
        diff |-> OrElse(parsedJson.value.diff, Undefined)]

NoParse ==
  [op |-> "none", response |-> [text |-> <<>>, members |-> EmptyObject],
   out |-> PlainText([text |-> <<>>, members |-> EmptyObject])]

\* ---- the token counter (utils/tokenCounter) ----
\* A model id is a sequence of pieces, the pieces written one after the other:
\* <<"gpt-4", "-32k">> is 'gpt-4-32k'.  "x" is any text that is part of no
\* known name, "constructor" a name every JavaScript object inherits from
\* Object.prototype.
IdPieces ==
  {"gpt-4", "GPT-4", "-turbo-preview", "-32k", "gpt-3.5-turbo", "-16k", "default",
   "x", "constructor"}

ModelIds == UNION {[1..n -> IdPieces] : n \in 0..MaxId}

\* the entries in the order Object.entries lists them
MODEL_TOKEN_LIMITS ==
  << [key |-> <<"gpt-4", "-turbo-preview">>, limit |-> 128000],
     [key |-> <<"gpt-4">>, limit |-> 8192],
     [key |-> <<"gpt-4", "-32k">>, limit |-> 32768],
     [key |-> <<"gpt-3.5-turbo">>, limit |-> 4096],
     [key |-> <<"gpt-3.5-turbo", "-16k">>, limit |-> 16384],
     [key |-> <<"default">>, limit |-> 4096] >>

\* a JavaScript number, or the function an inherited property holds
Number(n) == [t |-> "number", n |-> n]
InheritedFunction == [t |-> "function", n |-> 0]

\* the properties MODEL_TOKEN_LIMITS inherits (constructor, toString, ...)
InheritedKeys == {<<"constructor">>}

toLowerCase(id) == [i \in 1..Len(id) |-> IF id[i] = "GPT-4" THEN "gpt-4" ELSE id[i]]

includes(id, key) ==
  \E i \in 1..(Len(id) - Len(key) + 1) : SubSeq(id, i, i + Len(key) - 1) = key

\* MODEL_TOKEN_LIMITS[model], the own properties only
OwnLookup(model) ==
  LET hit == {k \in 1..Len(MODEL_TOKEN_LIMITS) : MODEL_TOKEN_LIMITS[k].key = model} IN
  IF hit # {} THEN Number(MODEL_TOKEN_LIMITS[Min(hit)].limit)
  ELSE Undefined

\* MODEL_TOKEN_LIMITS[model]: a property lookup walks the prototype chain
Lookup(model) ==
  IF OwnLookup(model) # Undefined THEN OwnLookup(model)
  ELSE IF model \in InheritedKeys THEN InheritedFunction
  ELSE Undefined

\* the keys the loop over Object.entries would accept
PartialMatch(model) ==
  {k \in 1..Len(MODEL_TOKEN_LIMITS) :
     includes(toLowerCase(model), toLowerCase(MODEL_TOKEN_LIMITS[k].key))}

getModelTokenLimit(model) ==
  IF Lookup(model) # Undefined THEN Lookup(model)
  ELSE IF PartialMatch(model) # {}
  THEN Number(MODEL_TOKEN_LIMITS[Min(PartialMatch(model))].limit)
  ELSE Number(MODEL_TOKEN_LIMITS[Len(MODEL_TOKEN_LIMITS)].limit)

\* Numbers further on are naturals, or NaN: what arithmetic on a value that
\* is not a number gives.  Every comparison with NaN is false.
NaN == -1

LessEq(a, b) == a # NaN /\ b # NaN /\ a <= b

Greater(a, b) == a # NaN /\ b # NaN /\ a > b

\* Math.max(0, limit - reserveForResponse)
getAvailableContextTokens(model, reserveForResponse) ==
  LET limit == getModelTokenLimit(model) IN
  IF limit.t # "number" THEN NaN
  ELSE IF limit.n - reserveForResponse > 0 THEN limit.n - reserveForResponse ELSE 0

\* A text is a sequence of characters: "a" a letter or digit, "#" any other
\* visible character, " " a blank, "\n" a line feed.
TextChars == {"a", "#", " ", "\n"}

Texts == UNION {[1..n -> TextChars] : n \in 0..MaxText}

isSpace(c) == c \in {" ", "\n"}

\* text.split(/\s+/).filter(Boolean).length: the runs of visible characters
Words(text) ==
  Cardinality({i \in 1..Len(text) :
                 ~isSpace(text[i]) /\ (i = 1 \/ isSpace(text[i - 1]))})

SpecialChars(text) == Cardinality({i \in 1..Len(text) : text[i] = "#"})

\* Math.ceil(words + specialChars * 0.5 + length / 10), in tenths
estimateTokenCount(text) ==
  (10 * Words(text) + 5 * SpecialChars(text) + Len(text) + 9) \div 10

fitsWithinLimit(content, model, reserveForResponse) ==
  LessEq(estimateTokenCount(content), getAvailableContextTokens(model, reserveForResponse))

\* Math.floor(available * 3), Math.floor(targetChars / 2)
TargetChars(available) == IF available = NaN THEN NaN ELSE available * 3

HalfTarget(targetChars) == IF targetChars = NaN THEN NaN ELSE targetChars \div 2

\* s.slice(0, n) for n >= 0 or NaN
SliceHead(s, n) == IF n = NaN THEN <<>> ELSE SubSeq(s, 1, Min({n, Len(s)}))

\* s.slice(-n): -0 and NaN are the index 0, the slice is then all of s
SliceTail(s, n) ==
  IF n = NaN \/ n = 0 THEN s ELSE SubSeq(s, Max({1, Len(s) - n + 1}), Len(s))

\* '\n\n... [content truncated] ...\n\n'
TruncationMarker ==
  <<"\n", "\n", "#", "#", "#", " ", "#">> \o [i \in 1..7 |-> "a"] \o <<" ">>
    \o [i \in 1..9 |-> "a"] \o <<"#", " ", "#", "#", "#", "\n", "\n">>

\* the negation of originalTokens <= available
OverBudget(originalTokens, available) == ~LessEq(originalTokens, available)

truncateToFitLimit(content, model, reserveForResponse) ==
  LET originalTokens == estimateTokenCount(content)
      available == getAvailableContextTokens(model, reserveForResponse)
      halfTarget == HalfTarget(TargetChars(available))
      truncated == SliceHead(content, halfTarget) \o TruncationMarker
                     \o SliceTail(content, halfTarget) IN
  IF ~OverBudget(originalTokens, available)
  THEN [content |-> content, wasTruncated |-> FALSE, originalTokens |-> originalTokens,
        finalTokens |-> originalTokens]
  ELSE [content |-> truncated, wasTruncated |-> TRUE, originalTokens |-> originalTokens,
        finalTokens |-> estimateTokenCount(truncated)]

\* the model and the reserve of a call: reserves close to the model's limit
\* leave a budget of a few tokens, larger ones none
Budgets ==
  {[model |-> <<"gpt-4">>, reserveForResponse |-> 8192 - k] : k \in (0 - 1)..MaxBudget}
    \cup {[model |-> <<"constructor">>, reserveForResponse |-> 2000]}

NoCount ==
  [op |-> "none", model |-> <<>>, reserveForResponse |-> 0, content |-> <<>>,
   limit |-> Number(0),
   out |-> [content |-> <<>>, wasTruncated |-> FALSE, originalTokens |-> 0,
            finalTokens |-> 0]]

\* content.split('\n')
RECURSIVE splitLines(_)
splitLines(s) ==
  LET feeds == {i \in 1..Len(s) : s[i] = "\n"} IN
  IF feeds = {} THEN <<s>>
  ELSE <<SubSeq(s, 1, Min(feeds) - 1)>> \o splitLines(SubSeq(s, Min(feeds) + 1, Len(s)))

\* lines.join('\n')
RECURSIVE joinLines(_)
joinLines(lines) ==
  IF Len(lines) = 0 THEN <<>>
  ELSE IF Len(lines) = 1 THEN lines[1]
  ELSE lines[1] \o <<"\n">> \o joinLines(Tail(lines))

\* overlap: how many lines of a full chunk open the next one (100 when the
\* caller gives none)
Overlaps == {0, 1, 100}

NoSplit ==
  [pc |-> "none", content |-> <<>>, model |-> <<>>, reserveForResponse |-> 0,
   overlap |-> 0, lines |-> <<>>, i |-> 0, currentChunk |-> <<>>, chunks |-> <<>>,
   visited |-> <<>>]

\* splitIntoChunks up to the loop: the early return for a short content
splitIntoChunksBegin(content, model, reserveForResponse, overlap) ==
  LET available == getAvailableContextTokens(model, reserveForResponse)
      called == [NoSplit EXCEPT !.content = content, !.model = model,
                                !.reserveForResponse = reserveForResponse,
                                !.overlap = overlap] IN
  IF LessEq(Len(content), TargetChars(available))
  THEN [called EXCEPT !.pc = "done", !.chunks = <<content>>]
  ELSE [called EXCEPT !.pc = "loop", !.lines = splitLines(content)]

\* the for ... of loop takes the lines one after the other
NextLineStays(i) == i

NextLine(i) == i + 1

\* the statements after the loop
splitIntoChunksEnd(sp) ==
  IF sp.i < Len(sp.lines) THEN sp
  ELSE [sp EXCEPT !.pc = "done",
                  !.chunks = IF sp.currentChunk # <<>> THEN Append(@, sp.currentChunk) ELSE @]

\* one iteration of the loop
splitIntoChunksLine(sp) ==
  LET available == getAvailableContextTokens(sp.model, sp.reserveForResponse)
      targetChars == TargetChars(available)
      line == sp.lines[sp.i + 1]
      currentChunk == sp.currentChunk
      potentialChunk ==
        currentChunk \o (IF currentChunk # <<>> THEN <<"\n">> ELSE <<>>) \o line
      overlapLines == SliceTail(splitLines(currentChunk), sp.overlap)
      taken == [sp EXCEPT !.i = NextLine(@), !.visited = Append(@, sp.i + 1)] IN
  IF Greater(estimateTokenCount(potentialChunk), available)
  THEN IF currentChunk # <<>>
       THEN [taken EXCEPT !.chunks = Append(@, currentChunk),
                          !.currentChunk = joinLines(overlapLines) \o <<"\n">> \o line]
       ELSE [taken EXCEPT !.chunks = Append(@, SliceHead(line, targetChars)),
                          !.currentChunk = <<>>]
  ELSE [taken EXCEPT !.currentChunk = potentialChunk]

\* ---- the context slicer (sliceContext) ----
\* a file is written with "x" (any character but the line feed) and "\n"
FileChars == {"x", "\n"}

Files == UNION {[1..n -> FileChars] : n \in 0..MaxFile}

\* the configuration merged with the defaults: limits of at least one line,
\* context sizes and character budgets of zero or more
Configs ==
  [linesBefore : 0..MaxContext, linesAfter : 0..MaxContext,
   maxTotalLines : 1..MaxWindow, maxCharacters : 0..MaxChars]

\* lines.slice(from, to) for 0-indexed from and to (to excluded)
SliceLines(lines, from, to) ==
  SubSeq(lines, Max({from, 0}) + 1, Min({to, Len(lines)}))

\* '...\n', '\n...' and '\n... (truncated)'
EllipsisBefore == <<".", ".", ".", "\n">>

EllipsisAfter == <<"\n", ".", ".", ".">>

TruncatedMark ==
  <<"\n", ".", ".", ".", " ", "(", "t", "r", "u", "n", "c", "a", "t", "e", "d", ")">>

\* the window before the limit on lines is applied
NaiveWindow(totalLines, selectionStartLine, selectionEndLine, config) ==
  [contextStartLine |-> Max({1, selectionStartLine - config.linesBefore}),
   contextEndLine |-> Min({totalLines, selectionEndLine + config.linesAfter})]

RecenterWide(totalLines, selectionStartLine, selectionEndLine, config) ==
  LET halfMax == config.maxTotalLines \div 2
      selectionMid == (selectionStartLine + selectionEndLine) \div 2
      start == Max({1, selectionMid - halfMax}) IN
  [contextStartLine |-> start,
   contextEndLine |-> Min({totalLines, start + config.maxTotalLines})]

\* the window recentered on the middle of the selection
Recenter(totalLines, selectionStartLine, selectionEndLine, config) ==
  LET halfMax == config.maxTotalLines \div 2
      selectionMid == (selectionStartLine + selectionEndLine) \div 2
      start == Max({1, selectionMid - halfMax}) IN
  [contextStartLine |-> start,
   contextEndLine |-> Min({totalLines, start + config.maxTotalLines - 1})]

\* beforeContext, selectedCode and afterContext cut to maxCharacters
CutToCharacters(beforeContext, selectedCode, afterContext, config) ==
  LET availableChars == config.maxCharacters - Len(selectedCode)
      halfAvailable == availableChars \div 2 IN
  IF Len(beforeContext) + Len(selectedCode) + Len(afterContext) <= config.maxCharacters
  THEN [beforeContext |-> beforeContext, selectedCode |-> selectedCode,
        afterContext |-> afterContext, wasTruncated |-> FALSE]
  ELSE IF availableChars > 0
  THEN [beforeContext |-> IF Len(beforeContext) > halfAvailable
                          THEN EllipsisBefore \o SliceTail(beforeContext, halfAvailable)
                          ELSE beforeContext,
        selectedCode |-> selectedCode,
        afterContext |-> IF Len(afterContext) > halfAvailable
                         THEN SliceHead(afterContext, halfAvailable) \o EllipsisAfter
                         ELSE afterContext,
        wasTruncated |-> TRUE]
  ELSE [beforeContext |-> <<>>,
        selectedCode |-> SliceHead(selectedCode, config.maxCharacters) \o TruncatedMark,
        afterContext |-> <<>>, wasTruncated |-> TRUE]

\* [beforeContext, selectedCode, afterContext].filter(Boolean).join('\n')
FullContext(cut) ==
  joinLines(SelectSeq(<<cut.beforeContext, cut.selectedCode, cut.afterContext>>,
                      LAMBDA part : part # <<>>))

sliceContext(fileContent, selectionStartLine, selectionEndLine, config) ==
  LET lines == splitLines(fileContent)
      totalLines == Len(lines)
      naive == NaiveWindow(totalLines, selectionStartLine, selectionEndLine, config)
      totalContextLines == naive.contextEndLine - naive.contextStartLine + 1
      window == IF totalContextLines > config.maxTotalLines
                THEN Recenter(totalLines, selectionStartLine, selectionEndLine, config)
                ELSE naive
      beforeLines == SliceLines(lines, window.contextStartLine - 1, selectionStartLine - 1)
      selectedLines == SliceLines(lines, selectionStartLine - 1, selectionEndLine)
      afterLines == SliceLines(lines, selectionEndLine, window.contextEndLine)
      cut == CutToCharacters(joinLines(beforeLines), joinLines(selectedLines),
                             joinLines(afterLines), config) IN
  [beforeContext |-> cut.beforeContext, selectedCode |-> cut.selectedCode,
   afterContext |-> cut.afterContext, fullContext |-> FullContext(cut),
   contextStartLine |-> window.contextStartLine,
   contextEndLine |-> window.contextEndLine,
   wasTruncated |-> cut.wasTruncated \/ totalContextLines > config.maxTotalLines,
   originalLineCount |-> totalLines]

NoSlice ==
  [op |-> "none", fileContent |-> <<>>, selectionStartLine |-> 1, selectionEndLine |-> 1,
   config |-> [linesBefore |-> 0, linesAfter |-> 0, maxTotalLines |-> 1,
               maxCharacters |-> 0],
   out |-> [beforeContext |-> <<>>, selectedCode |-> <<>>, afterContext |-> <<>>,
            fullContext |-> <<>>, contextStartLine |-> 1, contextEndLine |-> 1,
            wasTruncated |-> FALSE, originalLineCount |-> 1]]

\* ---- the issue extractor (POST /scan) ----
\* A text of a review is a sequence of pieces: "LINE" and "line" are the word
\* in two spellings, "ERROR", "warning" and "Info" the severities in three,
\* "0".."3" digits, "x" any other letter.
IsLine(c) == c \in {"LINE", "line"}

Digits == {"0", "1", "2", "3"}

IsSeverity(c) == c \in {"ERROR", "warning", "Info"}

Pieces ==
  {"LINE", "line", "ERROR", "warning", "Info", " ", ":", "-", "[", "]", "x", "."}
    \cup Digits

\* match[3].toLowerCase()
SeverityToLowerCase(c) ==
  IF c = "ERROR" THEN "error" ELSE IF c = "Info" THEN "info" ELSE c

DigitValue(c) == IF c = "0" THEN 0 ELSE IF c = "1" THEN 1 ELSE IF c = "2" THEN 2 ELSE 3

RECURSIVE parseInt(_)
parseInt(digits) ==
  IF digits = <<>> THEN 0
  ELSE 10 * parseInt(SubSeq(digits, 1, Len(digits) - 1)) + DigitValue(digits[Len(digits)])

\* the first index from i on that is past the run of pieces of the class
PastRun(text, i, class) ==
  Min({j \in i..(Len(text) + 1) : j = Len(text) + 1 \/ text[j] \notin class})

\* \s, [:\s] and [^.]
Blank == {" "}

ColonOrBlank == {":", " "}

NoPeriod == Pieces \ {"."}

\* String.prototype.trim
RECURSIVE trim(_)
trim(text) ==
  IF text = <<>> THEN text
  ELSE IF Head(text) = " " THEN trim(Tail(text))
  ELSE IF text[Len(text)] = " " THEN trim(SubSeq(text, 1, Len(text) - 1))
  ELSE text

NoMatch == [ok |-> FALSE, start |-> <<>>, end |-> <<>>, severity |-> "", rest |-> <<>>,
            last |-> 0]

\* \]?\s*(.+) after the severity at index word: (.+) takes what is left, and
\* \s* and \]? give one character back to it when they have taken all of it
SuggestionMessage(text, start, end, word) ==
  IF ~(word <= Len(text) /\ IsSeverity(text[word]) /\ word + 1 <= Len(text))
  THEN NoMatch
  ELSE CHOOSE match \in
         {[ok |-> TRUE, start |-> start, end |-> end, severity |-> text[word],
           rest |-> IF q2 <= Len(text) THEN SubSeq(text, q2, Len(text))
                    ELSE SubSeq(text, Len(text), Len(text)),
           last |-> Len(text)] :
            q2 \in {PastRun(text, IF text[word + 1] = "]" THEN word + 2 ELSE word + 1,
                            Blank)}} : TRUE

\* :\s*\[?(ERROR|WARNING|INFO) from the colon on
SuggestionSeverity(text, start, end, colon) ==
  CHOOSE match \in
    {SuggestionMessage(text, start, end,
                       IF sev <= Len(text) /\ text[sev] = "[" THEN sev + 1 ELSE sev) :
       sev \in {PastRun(text, colon + 1, Blank)}} : TRUE

\* (?:-(\d+))?: after the digits j..k-1
SuggestionRange(text, j, k) ==
  CHOOSE match \in
    {IF k <= Len(text) /\ text[k] = "-" /\ m > k + 1 /\ m <= Len(text) /\ text[m] = ":"
     THEN SuggestionSeverity(text, SubSeq(text, j, k - 1), SubSeq(text, k + 1, m - 1), m)
     ELSE IF k <= Len(text) /\ text[k] = ":"
     THEN SuggestionSeverity(text, SubSeq(text, j, k - 1), <<>>, k)
     ELSE NoMatch :
       m \in {PastRun(text, k + 1, Digits)}} : TRUE

\* (\d+) from index j on
SuggestionNumber(text, j) ==
  CHOOSE match \in
    {IF k > j THEN SuggestionRange(text, j, k) ELSE NoMatch :
       k \in {PastRun(text, j, Digits)}} : TRUE

\* /LINE\s*(\d+)(?:-(\d+))?:\s*\[?(ERROR|WARNING|INFO)\]?\s*(.+)/i tried at index i
SuggestionMatchAt(text, i) ==
  IF ~IsLine(text[i]) THEN NoMatch
  ELSE CHOOSE match \in
         {SuggestionNumber(text, j) : j \in {PastRun(text, i + 1, Blank)}} : TRUE

\* the leftmost match from index from on
RECURSIVE SuggestionSearch(_, _)
SuggestionSearch(text, from) ==
  IF from > Len(text) THEN NoMatch
  ELSE CHOOSE match \in
         {IF at.ok THEN at ELSE SuggestionSearch(text, from + 1) :
            at \in {SuggestionMatchAt(text, from)}} : TRUE

\* suggestion.match(...)
SuggestionMatch(text) == SuggestionSearch(text, 1)

\* ([^.]+) after the run i..r-1 of colons and blanks: the run gives its last
\* character to the message when a period or the end follows it
MentionMessage(text, i, r) ==
  LET from == IF r <= Len(text) /\ text[r] # "." THEN r ELSE r - 1 IN
  IF r = i \/ from = i THEN [ok |-> FALSE, rest |-> <<>>, last |-> 0]
  ELSE CHOOSE tail \in
         {[ok |-> TRUE, rest |-> SubSeq(text, from, to - 1), last |-> to - 1] :
            to \in {PastRun(text, from, NoPeriod)}} : TRUE

\* [:\s]+([^.]+) from index i on
MentionTail(text, i) ==
  CHOOSE tail \in
    {MentionMessage(text, i, r) : r \in {PastRun(text, i, ColonOrBlank)}} : TRUE

\* the match of the digits j..k-1 without a range
MentionPlain(text, j, k) ==
  CHOOSE match \in
    {IF tail.ok
     THEN [ok |-> TRUE, start |-> SubSeq(text, j, k - 1), end |-> <<>>, severity |-> "",
           rest |-> tail.rest, last |-> tail.last]
     ELSE NoMatch :
       tail \in {MentionTail(text, k)}} : TRUE

\* \s*(\d+) after the dash at index a: the range is taken when the rest
\* matches after it, and left out otherwise
MentionRangeEnd(text, j, k, a) ==
  CHOOSE match \in
    {IF c > PastRun(text, a + 1, Blank) /\ tail.ok
     THEN [ok |-> TRUE, start |-> SubSeq(text, j, k - 1),
           end |-> SubSeq(text, PastRun(text, a + 1, Blank), c - 1), severity |-> "",
           rest |-> tail.rest, last |-> tail.last]
     ELSE MentionPlain(text, j, k) :
       c \in {PastRun(text, PastRun(text, a + 1, Blank), Digits)},
       tail \in {MentionTail(text, PastRun(text, PastRun(text, a + 1, Blank), Digits))}} :
    TRUE

\* (?:\s*-\s*(\d+))? after the digits j..k-1
MentionRange(text, j, k) ==
  CHOOSE match \in
    {IF a <= Len(text) /\ text[a] = "-" THEN MentionRangeEnd(text, j, k, a)
     ELSE MentionPlain(text, j, k) :
       a \in {PastRun(text, k, Blank)}} : TRUE

\* /line\s*(\d+)(?:\s*-\s*(\d+))?[:\s]+([^.]+)/gi tried at index i
MentionMatchAt(text, i) ==
  IF ~IsLine(text[i]) THEN NoMatch
  ELSE CHOOSE match \in
         {IF k > j THEN MentionRange(text, j, k) ELSE NoMatch :
            j \in {PastRun(text, i + 1, Blank)},
            k \in {PastRun(text, PastRun(text, i + 1, Blank), Digits)}} : TRUE

\* explanation.matchAll(...): every match, each sought after the one before
RECURSIVE matchAll(_, _)
matchAll(text, from) ==
  IF from > Len(text) THEN <<>>
  ELSE CHOOSE all \in
         {IF at.ok THEN <<at>> \o matchAll(text, at.last + 1)
          ELSE matchAll(text, from + 1) :
            at \in {MentionMatchAt(text, from)}} : TRUE

Issue(startLine, endLine, severity, message) ==
  [startLine |-> startLine, endLine |-> endLine, severity |-> severity,
   message |-> message]

\* the issue a suggestion becomes
FromSuggestion(suggestion) ==
  CHOOSE issue \in
    {IF match.ok
     THEN Issue(parseInt(match.start),
                IF match.end # <<>> THEN parseInt(match.end) ELSE parseInt(match.start),
                SeverityToLowerCase(match.severity), trim(match.rest))
     ELSE Issue(1, 1, "info", suggestion) :
       match \in {SuggestionMatch(suggestion)}} : TRUE

\* the issues of the suggestions array; a number has no length and is passed
\* over
RECURSIVE FromSuggestions(_)
FromSuggestions(suggestions) ==
  IF suggestions.t # "array" \/ suggestions.s = <<>> THEN <<>>
  ELSE <<FromSuggestion(Head(suggestions.s).s)>>
         \o FromSuggestions(Arr(Tail(suggestions.s)))

\* suggestion.match is not a function for a member that is no string
SuggestionsThrow(suggestions) ==
  suggestions.t = "array" /\ \E i \in 1..Len(suggestions.s) : suggestions.s[i].t # "string"

MentionSeverityInfo == "info"

MentionSeverity == "warning"

\* the issue a match in the explanation becomes
FromMention(match) ==
  Issue(parseInt(match.start),
        IF match.end # <<>> THEN parseInt(match.end) ELSE parseInt(match.start),
        MentionSeverity, trim(match.rest))

RECURSIVE FromMentions(_)
FromMentions(all) ==
  IF all = <<>> THEN <<>> ELSE <<FromMention(Head(all))>> \o FromMentions(Tail(all))

\* the issues mentioned in the explanation, those of line 0 left out
FromExplanation(explanation) ==
  SelectSeq(FromMentions(matchAll(explanation, 1)), LAMBDA issue : issue.startLine > 0)

MockIssuesNone == <<>>

\* the three issues used when nothing was parsed
MockIssues ==
  <<Issue(16, 18, "error", <<"Division by zero not handled">>),
    Issue(21, 23, "warning", <<"Wrong operator">>),
    Issue(40, 42, "info", <<"History array never cleared">>)>>

\* `issue-${Date.now()}-${index}`
IssueId(time, index) == <<"issue", time, index>>

\* the readings of the clock while n issues get their ids
Clocks(n) ==
  {now \in [1..n -> 0..MaxClock] : \A i, j \in 1..n : i <= j => now[i] <= now[j]}

\* res.json({ issues: issuesWithIds })
Answer(issues, now) ==
  [status |-> 200, issues |-> issues,
   ids |-> [i \in 1..Len(issues) |-> IssueId(now[i], i - 1)]]

ScanFailed == [status |-> 500, issues |-> <<>>, ids |-> <<>>]

\* the handler once the suggestions are parsed: the explanation is read when
\* they gave nothing, and the mock issues used when that gave nothing either
ScanExplanation(review, now, parsedIssues) ==
  IF parsedIssues # <<>> THEN Answer(parsedIssues, now)
  ELSE IF review.explanation.t = "number" THEN ScanFailed
  ELSE IF ~Truthy(review.explanation) THEN Answer(MockIssues, now)
  ELSE CHOOSE answer \in
         {Answer(IF mentioned # <<>> THEN mentioned ELSE MockIssues, now) :
            mentioned \in {FromExplanation(review.explanation.s)}} : TRUE

\* the handler after generateReview: the answer, or the error 500 of the
\* catch block
scan(review, now) ==
  IF SuggestionsThrow(review.suggestions) THEN ScanFailed
  ELSE CHOOSE answer \in
         {ScanExplanation(review, now, parsedIssues) :
            parsedIssues \in {FromSuggestions(review.suggestions)}} : TRUE

NoScan ==
  [op |-> "none", review |-> [explanation |-> Str(<<>>), suggestions |-> Arr(<<>>)],
   out |-> [status |-> 200, issues |-> <<>>, ids |-> <<>>]]

\* a number, as a member of the review and of its suggestions
NoString == [t |-> "number", s |-> <<>>]

\* the most issues one answer holds
MostIssues == Max({Len(MockIssues), MaxSuggestions, MaxMentions})

\* suggestions the model may write: with and without the word LINE, a line,
\* a range or a broken range, a severity in brackets, bare or missing, a
\* description or none
SuggestionTexts ==
  {head \o range \o <<":", " ">> \o severity \o tail :
     head \in {<<"LINE", " ">>, <<"line">>, <<"x">>},
     range \in {<<"1">>, <<"1", "2", "-", "3">>, <<"1", "-">>},
     severity \in {<<"[", "ERROR", "]">>, <<"warning">>, <<"x">>},
     tail \in {<<>>, <<" ", "x">>}}

\* a mention of a line in the explanation
MentionTexts ==
  {<<"line">> \o blank \o range \o colon \o tail :
     blank \in {<<>>, <<" ">>},
     range \in {<<"0">>, <<"2">>, <<"1", " ", "-", " ", "3">>},
     colon \in {<<":", " ">>, <<" ">>, <<>>},
     tail \in {<<"x">>, <<"x", ".">>, <<>>}}

RECURSIVE Concat(_)
Concat(texts) == IF texts = <<>> THEN <<>> ELSE Head(texts) \o Concat(Tail(texts))

ExplanationTexts ==
  {Concat(mentions) : mentions \in UNION {[1..n -> MentionTexts] : n \in 0..MaxMentions}}

SuggestionLists ==
  {Arr(list) : list \in UNION {[1..n -> {Str(text) : text \in SuggestionTexts}] :
                                 n \in 0..MaxSuggestions}}

\* the reviews the scan may get from the parser: lists of suggestions next
\* to an explanation with or without a mention, and no usable suggestions
\* next to every explanation; a number stands for any value that is no
\* string and no array
Reviews ==
  [suggestions : SuggestionLists,
   explanation : {Str(<<"x">>), Str(<<"line", " ", "2", ":", " ", "x">>)}]
  \cup [suggestions : {Arr(<<>>), NoString, Arr(<<NoString>>)},
        explanation : {Str(text) : text \in ExplanationTexts} \cup {NoString}]

\* ---- merging threads (mergeThreads) ----
\* A thread has its id, the time of its last update and of its creation (a
\* thread was created once, so both versions of it agree on that) and the
\* side its content comes from.
CreatedAt(id) == id % 2

ThreadsOf(side) ==
  {[id |-> id, updatedAt |-> u, createdAt |-> CreatedAt(id), side |-> side] :
     id \in 1..MaxThreads, u \in 0..MaxStamp}

\* the lists of threads of one side; no two threads of a list share an id
ThreadLists(side) ==
  {list \in UNION {[1..n -> ThreadsOf(side)] : n \in 0..MaxThreads} :
     \A i, j \in 1..Len(list) : i # j => list[i].id # list[j].id}

\* merged.get(id): the index of the entry, 0 when there is none
MapIndex(map, id) ==
  IF \E i \in 1..Len(map) : map[i].id = id
  THEN CHOOSE i \in 1..Len(map) : map[i].id = id ELSE 0

\* merged.set(thread.id, thread): an entry keeps its place in the map
MapSet(map, thread) ==
  IF MapIndex(map, thread.id) = 0 THEN Append(map, thread)
  ELSE [map EXCEPT ![MapIndex(map, thread.id)] = thread]

RECURSIVE AddRemote(_, _)
AddRemote(map, remote) ==
  IF remote = <<>> THEN map ELSE AddRemote(MapSet(map, Head(remote)), Tail(remote))

LaterOrSame(localDate, remoteDate) == localDate >= remoteDate

\* localDate > remoteDate
Later(localDate, remoteDate) == localDate > remoteDate

RECURSIVE MergeLocal(_, _)
MergeLocal(map, local) ==
  IF local = <<>> THEN map
  ELSE LET localThread == Head(local)
           at == MapIndex(map, localThread.id) IN
       IF at = 0 \/ Later(localThread.updatedAt, map[at].updatedAt)
       THEN MergeLocal(MapSet(map, localThread), Tail(local))
       ELSE MergeLocal(map, Tail(local))

\* the thread put where the sort, which keeps equal threads in their order,
\* has it: after every thread created later or at the same time
RECURSIVE InsertByCreatedAt(_, _)
InsertByCreatedAt(sorted, thread) ==
  IF sorted = <<>> THEN <<thread>>
  ELSE IF Head(sorted).createdAt >= thread.createdAt
       THEN <<Head(sorted)>> \o InsertByCreatedAt(Tail(sorted), thread)
       ELSE <<thread>> \o sorted

\* sort((a, b) => b.createdAt - a.createdAt)
RECURSIVE SortByCreatedAt(_)
SortByCreatedAt(threads) ==
  IF threads = <<>> THEN <<>>
  ELSE InsertByCreatedAt(SortByCreatedAt(SubSeq(threads, 1, Len(threads) - 1)),
                         threads[Len(threads)])

mergeThreads(local, remote) == SortByCreatedAt(MergeLocal(AddRemote(<<>>, remote), local))

NoMerge == [op |-> "none", local |-> <<>>, remote |-> <<>>, out |-> <<>>]

\* ---- validating a selection (selectionValidator) ----
FileName == "a.ts"

LineRanges(totalLines) ==
  {range \in [startLine : 1..totalLines, endLine : 1..totalLines] :
     range.startLine <= range.endLine}

\* the threads on ranges of a file of totalLines lines and of another file
FileThreads(totalLines) ==
  [file : {FileName, "b.ts"}, range : LineRanges(totalLines)]

ExistingThreads(totalLines) ==
  UNION {[1..n -> FileThreads(totalLines)] : n \in 0..MaxThreads}

rangesOverlap(range1, range2) ==
  range1.startLine <= range2.endLine /\ range1.endLine >= range2.startLine

\* the thread put where the sort by start line, which keeps equal threads in
\* their order, has it
RECURSIVE InsertByStartLine(_, _)
InsertByStartLine(sorted, thread) ==
  IF sorted = <<>> THEN <<thread>>
  ELSE IF Head(sorted).range.startLine <= thread.range.startLine
       THEN <<Head(sorted)>> \o InsertByStartLine(Tail(sorted), thread)
       ELSE <<thread>> \o sorted

\* sort((a, b) => a.range.startLine - b.range.startLine)
RECURSIVE SortByStartLine(_)
SortByStartLine(threads) ==
  IF threads = <<>> THEN <<>>
  ELSE InsertByStartLine(SortByStartLine(SubSeq(threads, 1, Len(threads) - 1)),
                         threads[Len(threads)])

Null == [null |-> TRUE, startLine |-> 0, endLine |-> 0]

Range(startLine, endLine) == [null |-> FALSE, startLine |-> startLine, endLine |-> endLine]

\* the indexes i at which the selection fits between thread i and thread i + 1
FittingGaps(fileThreads, selection) ==
  {i \in 1..(Len(fileThreads) - 1) :
     /\ fileThreads[i].range.endLine + 1 < fileThreads[i + 1].range.startLine
     /\ selection.endLine - selection.startLine + 1
          <= (fileThreads[i + 1].range.startLine - 1)
               - (fileThreads[i].range.endLine + 1) + 1}

suggestNonOverlappingRange(selection, existingThreads, fileName, totalLines) ==
  LET fileThreads == SortByStartLine(SelectSeq(existingThreads,
                                               LAMBDA t : t.file = fileName))
      lastThread == fileThreads[Len(fileThreads)]
      gaps == FittingGaps(fileThreads, selection)
      gapStart == fileThreads[Min(gaps)].range.endLine + 1
      gapEnd == fileThreads[Min(gaps) + 1].range.startLine - 1
      selectionSize == selection.endLine - selection.startLine + 1 IN
  IF Len(fileThreads) = 0 THEN Range(selection.startLine, selection.endLine)
  ELSE IF selection.endLine < fileThreads[1].range.startLine
  THEN Range(selection.startLine, selection.endLine)
  ELSE IF selection.startLine > lastThread.range.endLine
  THEN Range(selection.startLine, selection.endLine)
  ELSE IF gaps # {}
  THEN Range(gapStart, Min({gapStart + selectionSize - 1, gapEnd}))
  ELSE Null

NoSuggestion ==
  [op |-> "none", selection |-> [startLine |-> 1, endLine |-> 1],
   existingThreads |-> <<>>, totalLines |-> 1, out |-> Null]

\* ---- the sync manager (createSyncManager) ----
Runs == 1..MaxRuns

OperationIds == 1..MaxOps

NoSyncStatus == [lastSyncAttempt |-> FALSE, lastSuccessfulSync |-> FALSE, isOnline |-> TRUE]

\* a run of sync(): pc is the await it stands at, queue its copy of the sync
\* queue, i the operation of the copy it is at, completed what it told
\* onSyncComplete
NoRun == [pc |-> "idle", queue |-> <<>>, i |-> 0, completed |-> "none"]

OperationTypes == {"create", "update", "delete"}

\* what the fetch of processOperation may come to: a response that is ok, one
\* with status 404 or 500, or a rejection
Responses == {"ok", "404", "500", "rejected"}

\* processOperation returns and does not throw
Processed(operation, response) ==
  response = "ok" \/ (operation.type = "delete" /\ response = "404")

removeFromSyncQueue(stored, operationId) ==
  SelectSeq(stored, LAMBDA op : op.id # operationId)

IncrementRetryAll(stored, operationId) ==
  [k \in 1..Len(stored) |-> [stored[k] EXCEPT !.retryCount = @ + 1]]

\* getSyncQueue().map(op => op.id === operation.id ? {...op, retryCount + 1} : op)
IncrementRetry(stored, operationId) ==
  [k \in 1..Len(stored) |->
     IF stored[k].id = operationId THEN [stored[k] EXCEPT !.retryCount = @ + 1]
     ELSE stored[k]]

\* the run that a call of sync() becomes
NewRun == Min({r \in Runs : runs[r].pc = "idle"})

\* sync() up to its first await, the check of the backend
BeginSync ==
  /\ \E r \in Runs : runs[r].pc = "idle"
  /\ runs' = [runs EXCEPT ![NewRun] = [NoRun EXCEPT !.pc = "health"]]

\* the end of sync(): updateSyncStatus reads isOnline from navigator.onLine
EndSync(r, onLine) ==
  /\ syncStatus' = [syncStatus EXCEPT !.lastSuccessfulSync = TRUE, !.isOnline = onLine]
  /\ runs' = [runs EXCEPT ![r].pc = "done", ![r].completed = "true"]

\* ---- initial state ----
Envs ==
  [AI_PROVIDER : EnvProviders, OPENAI_API_KEY : BOOLEAN, OPENROUTER_API_KEY : BOOLEAN]

\* getAvailableServices passes every provider id itself, AI_PROVIDER is not read
EnvsNoDefault == {e \in Envs : e.AI_PROVIDER = ""}

\* provider is the argument of the call, default the AI_PROVIDER it read ("":
\* unset, or not read because the argument was given)
NoCall ==
  [op |-> "none", provider |-> "", default |-> "", threw |-> NoError,
   service |-> NoService, available |-> <<>>]

DefaultRead(provider, e) == IF provider # "" THEN "" ELSE e.AI_PROVIDER

Init ==
  /\ instances = [k \in CacheKeys |-> NoService]
  /\ allocated = 0
  /\ handed = [k \in CacheKeys |-> {}]
  /\ retired = {}
  /\ req = [r \in Reqs |-> IdleReq]
  /\ inflight = {}
  /\ lastCall = NoCall
  /\ built = NoAdapter
  /\ parsed = NoParse
  /\ counted = NoCount
  /\ split = NoSplit
  /\ sliced = NoSlice
  /\ scanned = NoScan
  /\ merged = NoMerge
  /\ suggested = NoSuggestion
  /\ queue = <<>>
  /\ syncStatus = NoSyncStatus
  /\ syncInterval = FALSE
  /\ runs = [r \in Runs |-> NoRun]
  /\ issued = 0
  /\ sends = [id \in OperationIds |-> {}]
  /\ succeeded = [id \in OperationIds |-> 0]
  /\ failed = [id \in OperationIds |-> 0]

SetRegistry(reg) ==
  /\ reg.allocated <= MaxInst
  /\ instances' = reg.instances
  /\ allocated' = reg.allocated
  /\ handed' = reg.handed

\* ---- actions ----
GetService(provider, e, sdkThrows) ==
  LET g == getService(Registry, provider, e, sdkThrows) IN
  /\ SetRegistry(g.reg)
  /\ lastCall' = [NoCall EXCEPT !.op = "getService", !.provider = provider,
                                !.default = DefaultRead(provider, e),
                                !.threw = g.threw, !.service = g.service]
  /\ UNCHANGED <<retired, req, inflight, calcVars>>

GetAvailableServices(e, sdkThrows) ==
  LET a == getAvailableServices(Registry, e, sdkThrows) IN
  /\ SetRegistry(a.reg)
  /\ lastCall' = [NoCall EXCEPT !.op = "getAvailableServices", !.threw = a.threw,
                                !.available = a.available]
  /\ UNCHANGED <<retired, req, inflight, calcVars>>

ClearInstances ==
  /\ instances' = clearInstances(instances)
  /\ retired' = retired \cup ({instances[k] : k \in CacheKeys} \ {NoService})
  /\ handed' = [k \in CacheKeys |-> {}]
  /\ lastCall' = [NoCall EXCEPT !.op = "clearInstances"]
  /\ UNCHANGED <<allocated, req, inflight, calcVars>>

GenerateReview(r, e, sdkThrows) ==
  LET b == generateReviewBegin(Registry, e, sdkThrows) IN
  /\ req[r].pc = "idle"
  /\ SetRegistry(b.reg)
  /\ req' = [req EXCEPT ![r] = b.rq]
  /\ inflight' = inflight \cup AwaitedCalls(r, b.rq)
  /\ lastCall' = NoCall
  /\ UNCHANGED <<retired, calcVars>>

GenerateReviewWithFallback(r, e, sdkThrows) ==
  LET b == generateReviewWithFallbackBegin(Registry, e, sdkThrows) IN
  /\ req[r].pc = "idle"
  /\ SetRegistry(b.reg)
  /\ req' = [req EXCEPT ![r] = b.rq]
  /\ inflight' = inflight \cup AwaitedCalls(r, b.rq)
  /\ lastCall' = NoCall
  /\ UNCHANGED <<retired, calcVars>>

\* the upstream call the request awaits settles with the given outcome
Settle(r, outcome) ==
  LET rq == requestResume(req[r], outcome) IN
  /\ req[r].pc = "awaiting"
  /\ [req |-> r, service |-> req[r].services[req[r].idx].id] \in inflight
  /\ req' = [req EXCEPT ![r] = rq]
  /\ inflight' = (inflight \ {[req |-> r, service |-> req[r].services[req[r].idx].id]})
                   \cup AwaitedCalls(r, rq)
  /\ lastCall' = NoCall
  /\ UNCHANGED <<instances, allocated, handed, retired, calcVars>>

\* the caller has consumed the outcome; the slot serves the next request
Finish(r) ==
  /\ req[r].pc = "done"
  /\ req' = [req EXCEPT ![r] = IdleReq]
  /\ lastCall' = NoCall
  /\ UNCHANGED <<instances, allocated, handed, retired, inflight, calcVars>>

factoryVars == <<instances, allocated, handed, retired, req, inflight, lastCall>>

\* an adapter is constructed outside the registry, in the environment e
Construct(name, e, sdkThrows) ==
  LET n == NewAdapter(name, e, sdkThrows) IN
  /\ built' = [NoAdapter EXCEPT !.pc = "constructed", !.name = name, !.e = e,
                                !.sdkThrows = sdkThrows, !.threw = n.threw,
                                !.service = n.service]
  /\ UNCHANGED <<factoryVars, parsed, counted, split, utilVars>>

\* isAvailable() is called on the adapter just constructed
IsAvailable ==
  /\ built.pc = "constructed"
  /\ built.threw = NoError
  /\ built' = [built EXCEPT !.pc = "checked", !.available = isAvailable(built.service)]
  /\ UNCHANGED <<factoryVars, parsed, counted, split, utilVars>>

\* parseReviewResponse is called on a reply (one call is followed per behaviour)
ParseReviewResponse(response) ==
  /\ parsed.op = "none"
  /\ parsed' = [op |-> "parse", response |-> response, out |-> parseReviewResponse(response)]
  /\ UNCHANGED <<factoryVars, built, counted, split, utilVars>>

\* BaseAIService.review after generateCompletion returned response: every
\* adapter throws instead of returning an empty content
ReviewParses(response) ==
  /\ parsed.op = "none"
  /\ response.text # <<>>
  /\ parsed' = [op |-> "review", response |-> response, out |-> parseReviewResponse(response)]
  /\ UNCHANGED <<factoryVars, built, counted, split, utilVars>>

\* getModelTokenLimit is called on a model id (one call is followed per behaviour)
GetModelTokenLimit(model) ==
  /\ counted.op = "none"
  /\ counted' = [NoCount EXCEPT !.op = "getModelTokenLimit", !.model = model,
                                !.limit = getModelTokenLimit(model)]
  /\ UNCHANGED <<factoryVars, built, parsed, split, utilVars>>

TruncateToFitLimit(content, model, reserveForResponse) ==
  /\ counted.op = "none"
  /\ counted' = [NoCount EXCEPT !.op = "truncateToFitLimit", !.model = model,
                                !.reserveForResponse = reserveForResponse,
                                !.content = content,
                                !.limit = getModelTokenLimit(model),
                                !.out = truncateToFitLimit(content, model, reserveForResponse)]
  /\ UNCHANGED <<factoryVars, built, parsed, split, utilVars>>

\* splitIntoChunks is called (one call is followed per behaviour)
SplitIntoChunks(content, model, reserveForResponse, overlap) ==
  /\ split.pc = "none"
  /\ split' = splitIntoChunksBegin(content, model, reserveForResponse, overlap)
  /\ UNCHANGED <<factoryVars, built, parsed, counted, utilVars>>

\* the loop body runs for the next line; after the last line the function
\* returns
SplitLine ==
  /\ split.pc = "loop"
  /\ split.i < Len(split.lines)
  /\ Len(split.visited) <= Len(split.lines)  \* the history is kept this long at most
  /\ split' = splitIntoChunksEnd(splitIntoChunksLine(split))
  /\ UNCHANGED <<factoryVars, built, parsed, counted, utilVars>>

\* sliceContext is called with a selection of lines of the file (one call is
\* followed per behaviour)
SliceContext(fileContent, selectionStartLine, selectionEndLine, config) ==
  /\ sliced.op = "none"
  /\ 1 <= selectionStartLine
  /\ selectionStartLine <= selectionEndLine
  /\ selectionEndLine <= Len(splitLines(fileContent))
  /\ sliced' = [op |-> "sliceContext", fileContent |-> fileContent,
                selectionStartLine |-> selectionStartLine,
                selectionEndLine |-> selectionEndLine, config |-> config,
                out |-> sliceContext(fileContent, selectionStartLine, selectionEndLine,
                                     config)]
  /\ UNCHANGED <<factoryVars, built, parsed, counted, split, scanned, merged, suggested,
                 syncVars>>

\* POST /scan from the point where generateReview has returned `review`; the
\* clock is read once for every issue and does not run backwards
Scan(review, now) ==
  /\ scanned.op = "none"
  /\ scanned' = [op |-> "scan", review |-> review, out |-> scan(review, now)]
  /\ UNCHANGED <<factoryVars, built, parsed, counted, split, sliced, merged, suggested,
                 syncVars>>

\* mergeThreads is called with the threads kept locally and those of the backend
MergeThreads(local, remote) ==
  /\ merged.op = "none"
  /\ merged' = [op |-> "mergeThreads", local |-> local, remote |-> remote,
                out |-> mergeThreads(local, remote)]
  /\ UNCHANGED <<factoryVars, built, parsed, counted, split, sliced, scanned, suggested,
                 syncVars>>

\* suggestNonOverlappingRange is called for a selection in the file FileName
SuggestNonOverlappingRange(selection, existingThreads, totalLines) ==
  /\ suggested.op = "none"
  /\ suggested' = [op |-> "suggestNonOverlappingRange", selection |-> selection,
                   existingThreads |-> existingThreads, totalLines |-> totalLines,
                   out |-> suggestNonOverlappingRange(selection, existingThreads,
                                                      FileName, totalLines)]
  /\ UNCHANGED <<factoryVars, built, parsed, counted, split, sliced, scanned, merged,
                 syncVars>>

notSyncVars ==
  <<factoryVars, built, parsed, counted, split, sliced, scanned, merged, suggested>>

\* start(): the timer is set anew and a run begins at once
Start ==
  /\ BeginSync
  /\ syncInterval' = TRUE
  /\ UNCHANGED <<queue, syncStatus, issued, sends, succeeded, failed, notSyncVars>>

\* stop()
Stop ==
  /\ syncInterval
  /\ syncInterval' = FALSE
  /\ UNCHANGED <<queue, syncStatus, runs, issued, sends, succeeded, failed, notSyncVars>>

\* the timer fires
Tick ==
  /\ syncInterval
  /\ BeginSync
  /\ UNCHANGED <<queue, syncStatus, syncInterval, issued, sends, succeeded, failed,
                 notSyncVars>>

\* forceSync()
ForceSync ==
  /\ BeginSync
  /\ UNCHANGED <<queue, syncStatus, syncInterval, issued, sends, succeeded, failed,
                 notSyncVars>>

\* addToSyncQueue(operation), the storage being available
AddToSyncQueue(type) ==
  /\ issued < MaxOps
  /\ issued' = issued + 1
  /\ queue' = Append(queue, [id |-> issued + 1, type |-> type, retryCount |-> 0])
  /\ UNCHANGED <<syncStatus, syncInterval, runs, sends, succeeded, failed, notSyncVars>>

\* checkBackendAvailability has answered run r: the run ends when the
\* backend is away or the queue empty, else it copies the queue and sends the
\* first operation
HealthChecked(r, backendAvailable, onLine) ==
  /\ runs[r].pc = "health"
  /\ IF ~backendAvailable
     THEN /\ syncStatus' = [syncStatus EXCEPT !.lastSyncAttempt = TRUE, !.isOnline = FALSE]
          /\ runs' = [runs EXCEPT ![r].pc = "done", ![r].completed = "false"]
          /\ UNCHANGED sends
     ELSE IF queue = <<>>
     THEN /\ syncStatus' = [lastSyncAttempt |-> TRUE, lastSuccessfulSync |-> TRUE,
                            isOnline |-> onLine]
          /\ runs' = [runs EXCEPT ![r].pc = "done", ![r].completed = "true"]
          /\ UNCHANGED sends
     ELSE /\ syncStatus' = [syncStatus EXCEPT !.lastSyncAttempt = TRUE, !.isOnline = TRUE]
          /\ runs' = [runs EXCEPT ![r] = [pc |-> "sending", queue |-> queue, i |-> 1,
                                          completed |-> "none"]]
          /\ sends' = [sends EXCEPT ![queue[1].id] = @ \cup {r}]
  /\ UNCHANGED <<queue, syncInterval, issued, succeeded, failed, notSyncVars>>

\* the backend has answered the operation run r sent: the operation is
\* removed from the stored queue, or its retryCount raised there, and the run
\* sends the next operation of its copy or ends
Replied(r, response, onLine) ==
  LET operation == runs[r].queue[runs[r].i] IN
  /\ runs[r].pc = "sending"
  /\ IF Processed(operation, response)
     THEN /\ queue' = removeFromSyncQueue(queue, operation.id)
          /\ succeeded' = [succeeded EXCEPT ![operation.id] = @ + 1]
          /\ UNCHANGED failed
     ELSE /\ queue' = IncrementRetry(queue, operation.id)
          /\ failed' = [failed EXCEPT ![operation.id] = @ + 1]
          /\ UNCHANGED succeeded
  /\ IF runs[r].i < Len(runs[r].queue)
     THEN /\ runs' = [runs EXCEPT ![r].i = @ + 1]
          /\ sends' = [sends EXCEPT ![runs[r].queue[runs[r].i + 1].id] = @ \cup {r}]
          /\ UNCHANGED syncStatus
     ELSE /\ EndSync(r, onLine)
          /\ UNCHANGED sends
  /\ UNCHANGED <<syncInterval, issued, notSyncVars>>

Next ==
  \/ \E p \in ProviderArgs, e \in Envs, t \in BOOLEAN : GetService(p, e, t)
  \/ \E e \in EnvsNoDefault, t \in BOOLEAN : GetAvailableServices(e, t)
  \/ ClearInstances
  \/ \E r \in Reqs, e \in Envs, t \in BOOLEAN : GenerateReview(r, e, t)
  \/ \E r \in Reqs, e \in EnvsNoDefault, t \in BOOLEAN : GenerateReviewWithFallback(r, e, t)
  \/ \E r \in Reqs, o \in Outcomes : Settle(r, o)
  \/ \E r \in Reqs : Finish(r)

Spec == Init /\ [][Next]_vars

\* the registry used on its own: its three operations called in any order
NextRegistry ==
  \/ \E p \in ProviderArgs, e \in Envs, t \in BOOLEAN : GetService(p, e, t)
  \/ \E e \in EnvsNoDefault, t \in BOOLEAN : GetAvailableServices(e, t)
  \/ ClearInstances

SpecRegistry == Init /\ [][NextRegistry]_vars

\* the review requests of a running server, on whatever registry they build
NextFailover ==
  \/ \E r \in Reqs, e \in Envs, t \in BOOLEAN : GenerateReview(r, e, t)
  \/ \E r \in Reqs, e \in EnvsNoDefault, t \in BOOLEAN : GenerateReviewWithFallback(r, e, t)
  \/ \E r \in Reqs, o \in Outcomes : Settle(r, o)
  \/ \E r \in Reqs : Finish(r)

SpecFailover == Init /\ [][NextFailover]_vars

\* adapters constructed and asked for their availability, one at a time
NextAdapters ==
  \/ \E n \in AIProvider, e \in AdapterEnvs, t \in BOOLEAN : Construct(n, e, t)
  \/ IsAvailable

SpecAdapters == Init /\ [][NextAdapters]_vars

\* the response parser on every reply, called directly and by review
NextParser ==
  \/ parsed.op = "none" /\ \E response \in Replies : ParseReviewResponse(response)
  \/ parsed.op = "none" /\ \E response \in Replies : ReviewParses(response)

SpecParser == Init /\ [][NextParser]_vars

\* the model's limit looked up for every model id
NextLimit == counted.op = "none" /\ \E model \in ModelIds : GetModelTokenLimit(model)

SpecLimit == Init /\ [][NextLimit]_vars

\* a text truncated to every budget
NextTruncate ==
  counted.op = "none" /\ \E content \in Texts, b \in Budgets :
                           TruncateToFitLimit(content, b.model, b.reserveForResponse)

SpecTruncate == Init /\ [][NextTruncate]_vars

\* a text split for every budget and overlap; the function is synchronous
\* code, which runs on until it returns
NextSplit ==
  \/ split.pc = "none" /\ \E content \in Texts, b \in Budgets, overlap \in Overlaps :
                            SplitIntoChunks(content, b.model, b.reserveForResponse, overlap)
  \/ SplitLine

SpecSplit == Init /\ [][NextSplit]_vars /\ WF_vars(SplitLine)

\* a selection of every file sliced under every configuration
NextSlicer ==
  sliced.op = "none" /\ \E fileContent \in Files, config \in Configs :
                          \E s \in 1..(MaxFile + 1), e \in 1..(MaxFile + 1) :
                            SliceContext(fileContent, s, e, config)

SpecSlicer == Init /\ [][NextSlicer]_vars

\* one scan of every review under every run of the clock
NextScan ==
  scanned.op = "none" /\ \E review \in Reviews, now \in Clocks(MostIssues) : Scan(review, now)

SpecScan == Init /\ [][NextScan]_vars

\* one merge of every two lists of threads
NextMerge ==
  merged.op = "none" /\ \E local \in ThreadLists("local"), remote \in ThreadLists("remote") :
                          MergeThreads(local, remote)

SpecMerge == Init /\ [][NextMerge]_vars

\* one suggestion for every selection among every list of threads
NextSuggest ==
  suggested.op = "none" /\ \E selection \in LineRanges(MaxLines),
                               existingThreads \in ExistingThreads(MaxLines) :
                             SuggestNonOverlappingRange(selection, existingThreads, MaxLines)

SpecSuggest == Init /\ [][NextSuggest]_vars

\* one sync manager: operations are queued while its runs go on
NextSync ==
  \/ Start
  \/ Stop
  \/ Tick
  \/ ForceSync
  \/ \E type \in OperationTypes : AddToSyncQueue(type)
  \/ \E r \in Runs, backendAvailable \in BOOLEAN, onLine \in BOOLEAN :
       HealthChecked(r, backendAvailable, onLine)
  \/ \E r \in Runs, response \in Responses, onLine \in BOOLEAN :
       Replied(r, response, onLine)

SpecSync == Init /\ [][NextSync]_vars

TypeOK ==
  /\ \A k \in CacheKeys : instances[k].id \in 0..allocated
  /\ allocated <= MaxInst
  /\ \A r \in Reqs : req[r].pc \in {"idle", "awaiting", "done"}


\* ---- claims ----
Fallback(r) == req[r].fn = "generateReviewWithFallback"
Done(r) == req[r].pc = "done"
AllFailed(r) ==
  Fallback(r) /\ Done(r) /\ Len(req[r].services) > 0 /\ req[r].result = NoResult

\* C1: when generateReviewWithFallback runs over a non-empty list and every
\* provider's review fails, the call fails with the error of the last provider
\* of the list, not with the error of any earlier one
C1_LastErrorWins ==
  \A r \in Reqs :
    AllFailed(r) =>
      LET rq == req[r] IN
      /\ rq.error.from = rq.services[Len(rq.services)].id
      /\ \A k \in 1..(Len(rq.services) - 1) : rq.error.from # rq.services[k].id

C1_Witness ==
  \E r \in Reqs :
    /\ AllFailed(r)
    /\ Len(req[r].services) >= 2
    /\ Len(req[r].invoked) = Len(req[r].services)
    /\ req[r].error.from = req[r].services[Len(req[r].services)].id

\* C2: a generateReviewWithFallback call that returns a result has invoked
\* review on the providers of the list in list order, once each, up to the
\* first one that succeeded and on none after it; all before it failed, and
\* the result carries the tag of the one that succeeded
C2_FirstSuccessReturns ==
  \A r \in Reqs :
    (Fallback(r) /\ Done(r) /\ req[r].result # NoResult) =>
      LET rq == req[r]
          n == Len(rq.invoked)
      IN /\ n \in 1..Len(rq.services)
         /\ \A k \in 1..n : rq.invoked[k].service = rq.services[k].id
         /\ \A k \in 1..(n - 1) : rq.invoked[k].outcome = "failed"
         /\ rq.invoked[n].outcome = "ok"
         /\ rq.result.provider = rq.services[n].name
         /\ rq.error = NoError

C2_Witness ==
  \E r \in Reqs :
    /\ Fallback(r) /\ Done(r)
    /\ Len(req[r].services) = 3
    /\ Len(req[r].invoked) = 2
    /\ req[r].invoked[1].outcome = "failed"
    /\ req[r].result.provider = req[r].services[2].name

\* C3: with an empty list of available providers generateReviewWithFallback
\* fails at once with the 'No AI services available' error, and no review is
\* invoked
C3_NoServicesFailsAtOnce ==
  \A r \in Reqs :
    (Fallback(r) /\ Len(req[r].services) = 0) =>
      /\ Done(r)
      /\ req[r].error = NoServicesError
      /\ req[r].invoked = <<>>
      /\ \A c \in inflight : c.req # r

C3_Witness ==
  \E r \in Reqs :
    Fallback(r) /\ Len(req[r].services) = 0 /\ req[r].error = NoServicesError

\* C4: the attempts of one generateReviewWithFallback call are sequential: at
\* most one review of the call is in flight, it is the attempt on the current
\* candidate, and every earlier attempt has completed with a failure
C4_Sequential ==
  \A r \in Reqs :
    LET mine == {c \in inflight : c.req = r}
        rq == req[r]
    IN /\ Cardinality(mine) <= 1
       /\ \A c \in mine :
            /\ rq.pc = "awaiting"
            /\ c.service = rq.services[rq.idx].id
            /\ Len(rq.invoked) = rq.idx
            /\ rq.invoked[rq.idx].outcome = "pending"
            /\ \A k \in 1..(rq.idx - 1) : rq.invoked[k].outcome = "failed"

C4_Witness ==
  \E r \in Reqs :
    /\ Fallback(r) /\ req[r].pc = "awaiting" /\ req[r].idx = 2
    /\ [req |-> r, service |-> req[r].services[2].id] \in inflight
    /\ req[r].invoked[1].outcome = "failed"

C6_ClearThenFresh ==
  /\ lastCall.op = "clearInstances" => \A k \in CacheKeys : instances[k] = NoService
  /\ \A k \in CacheKeys : \A old \in retired : old.id \notin handed[k]
  /\ lastCall.op = "getService" => lastCall.service \notin retired

C6_Witness ==
  /\ lastCall.op = "getService"
  /\ \E old \in retired :
       /\ old.name = lastCall.service.name
       /\ old.id # lastCall.service.id
       /\ isAvailable(old) # isAvailable(lastCall.service)

\* C7: getService with an identifier that is no known provider, given as the
\* argument or read from AI_PROVIDER, throws the 'Unknown AI provider' error
\* and leaves the cache as it was
C7_UnknownProvider ==
  [][(/\ lastCall'.op = "getService"
      /\ SelectedProvider(lastCall'.provider, [AI_PROVIDER |-> lastCall'.default])
           \notin AIProvider)
     => (/\ lastCall'.threw.msg = "Unknown AI provider"
         /\ lastCall'.service = NoService
         /\ instances' = instances)]_vars

C7_Witness ==
  /\ lastCall.op = "getService"
  /\ lastCall.provider = "unknown"
  /\ lastCall.threw.msg = "Unknown AI provider"
  /\ \E k \in CacheKeys : instances[k] # NoService

\* C8: getAvailableServices does not throw and returns, in the order openai,
\* openrouter, bedrock, exactly the providers that have an object (cached or
\* just constructed) whose isAvailable() is true
Usable(s) == s # NoService /\ isAvailable(s)

C8_AvailableInOrder ==
  lastCall.op = "getAvailableServices" =>
    /\ lastCall.threw = NoError
    /\ lastCall.available =
         SelectSeq(<<instances["openai"], instances["openrouter"], instances["bedrock"]>>,
                   Usable)

C8_Witness ==
  /\ lastCall.op = "getAvailableServices"
  /\ instances["openai"] = NoService
  /\ instances["openrouter"] # NoService /\ ~isAvailable(instances["openrouter"])
  /\ lastCall.available = <<instances["bedrock"]>>

\* C9: a review on an adapter that is not available fails without any
\* generateCompletion call; a review on an available adapter makes exactly
\* one, whether the call succeeds or fails
C9_OneCompletionPerReview ==
  \A r \in Reqs :
    \A k \in 1..Len(req[r].invoked) :
      LET inv == req[r].invoked[k] IN
      IF inv.available
      THEN /\ inv.completions = 1
           /\ inv.outcome = "pending" <=> [req |-> r, service |-> inv.service] \in inflight
      ELSE /\ inv.completions = 0
           /\ inv.outcome = "failed"
           /\ [req |-> r, service |-> inv.service] \notin inflight

C9_Witness ==
  \E r \in Reqs :
    /\ Done(r) /\ Len(req[r].invoked) = 1
    /\ ~req[r].invoked[1].available
    /\ req[r].error.msg = "service is not available or not configured"

\* the adapter whose review failed last in a finished request
FailedAdapter(r) == req[r].services[Len(req[r].invoked)]
UpstreamFailed(r) == Done(r) /\ req[r].error # NoError /\ req[r].raised # NoError

\* C10 as stated: the error review propagates after a failed upstream call
\* carries the provider name of the adapter
C10_ErrorTagged ==
  \A r \in Reqs : UpstreamFailed(r) => req[r].error.names = FailedAdapter(r).name

\* C10 as amended: review names the provider in its console.error line and
\* rethrows what generateCompletion raised as it is; that error names the
\* provider only when the adapter created it itself
C10_ErrorRethrownUnchanged ==
  \A r \in Reqs :
    UpstreamFailed(r) =>
      /\ req[r].error = req[r].raised
      /\ req[r].error.from = FailedAdapter(r).id
      /\ req[r].logged = FailedAdapter(r).name
      /\ req[r].error.names \in {"none", FailedAdapter(r).name}
      /\ req[r].error.msg = "upstream rejected" => req[r].error.names = "none"

C10_Witness ==
  \E r \in Reqs :
    /\ UpstreamFailed(r)
    /\ req[r].error.names = "none"
    /\ req[r].logged = FailedAdapter(r).name

\* the credential material an adapter requires is in the configuration
CredentialPresent(name, e) ==
  CASE name = "openai" -> e.OPENAI_API_KEY
    [] name = "openrouter" -> e.OPENROUTER_API_KEY
    [] name = "bedrock" -> e.AWS_PROFILE_CREDENTIALS

\* C11: for each adapter, when the credential material it requires is absent
\* from the configuration, constructing it does not raise and isAvailable()
\* returns false.
C11_AbsentCredentialUnavailable ==
  (built.pc # "none" /\ ~CredentialPresent(built.name, built.e))
    => /\ built.threw = NoError
       /\ built.pc = "checked" => ~built.available

\* the part of C11 the code keeps: the two adapters that take an API key
C11_AbsentKeyUnavailable ==
  (built.pc # "none" /\ built.name # "bedrock" /\ ~CredentialPresent(built.name, built.e))
    => /\ built.threw = NoError
       /\ built.pc = "checked" => ~built.available

\* ---- claims about the response parser ----
ParserCalled == parsed.op # "none"

\* the result is the raw reply as explanation, no suggestions, no diff
RawFallback ==
  /\ parsed.out.explanation = Str(parsed.response.text)
  /\ parsed.out.suggestions = Arr(<<>>)
  /\ parsed.out.diff = Undefined

\* the text has a "{" with a "}" somewhere after it
HasSpan(text) == \E i, j \in 1..Len(text) : i < j /\ text[i] = "{" /\ text[j] = "}"

ValidJSON(span) == NoSpace(span) \in {<<"{", "}">>, <<"{", "J", "}">>}

\* C12: parseReviewResponse never throws, and whenever the reply has no
\* JSON-like span or the span is not valid JSON the result is exactly the raw
\* reply as explanation, an empty list of suggestions and no diff.
C12_NeverThrowsFallsBack ==
  ParserCalled =>
    /\ ~parsed.out.threw
    /\ (~HasSpan(parsed.response.text) \/ ~ValidJSON(jsonMatch(parsed.response.text).span))
         => RawFallback

C12_Witness ==
  /\ parsed.op = "parse"
  /\ HasSpan(parsed.response.text)
  /\ ~ValidJSON(jsonMatch(parsed.response.text).span)
  /\ \E i \in 1..Len(parsed.response.text) : parsed.response.text[i] = "J"
  /\ parsed.response.members.explanation = Str(<<"e">>)
  /\ ~parsed.out.threw
  /\ RawFallback

\* the object of the reply has the expected fields, none of them empty
ExpectedFields(m) ==
  /\ m.explanation.t = "string" /\ m.explanation.s # <<>>
  /\ m.suggestions.t = "array"
  /\ m.diff.t = "string" /\ m.diff.s # <<>>

\* a valid JSON object stands somewhere in the text
Embedded(text) == \E i \in 1..(Len(text) - 2) : SubSeq(text, i, i + 2) = <<"{", "J", "}">>

\* C13: for every reply in which a valid JSON object with the expected fields
\* is embedded in prose, whatever characters the prose before and after it
\* contains, the result is that object's explanation, suggestions and diff.
C13_EmbeddedJsonExtracted ==
  (ParserCalled /\ Embedded(parsed.response.text) /\ ExpectedFields(parsed.response.members))
    => /\ parsed.out.explanation = parsed.response.members.explanation
       /\ parsed.out.suggestions = parsed.response.members.suggestions
       /\ parsed.out.diff = parsed.response.members.diff

\* the whole reply is one JSON object {explanation: e, suggestions: s, diff: d}
\* with e and d strings and s a list
WellFormedReply ==
  /\ ParserCalled
  /\ NoSpace(parsed.response.text) = <<"{", "J", "}">>
  /\ parsed.response.members.explanation.t = "string"
  /\ parsed.response.members.suggestions.t = "array"
  /\ parsed.response.members.diff.t = "string"

\* C14 as claimed: a well-formed JSON reply gives back exactly explanation = e,
\* suggestions = s and diff = d, also when e or d is the empty string.
C14_RoundTripExact ==
  WellFormedReply =>
    /\ parsed.out.explanation = parsed.response.members.explanation
    /\ parsed.out.suggestions = parsed.response.members.suggestions
    /\ parsed.out.diff = parsed.response.members.diff

\* C14 (amended): a well-formed JSON reply gives back suggestions = s,
\* explanation = e unless e is empty (then the placeholder) and diff = d unless
\* d is empty (then no diff).
C14_RoundTripNonEmpty ==
  WellFormedReply =>
    /\ parsed.out.explanation =
         (IF parsed.response.members.explanation.s # <<>>
          THEN parsed.response.members.explanation ELSE Placeholder)
    /\ parsed.out.suggestions = parsed.response.members.suggestions
    /\ parsed.out.diff =
         (IF parsed.response.members.diff.s # <<>>
          THEN parsed.response.members.diff ELSE Undefined)

C14_Witness ==
  /\ WellFormedReply
  /\ parsed.response.members.explanation = Str(<<>>)
  /\ parsed.response.members.suggestions = Arr(<<"s">>)
  /\ parsed.response.members.diff = Str(<<"d">>)
  /\ parsed.out.explanation = Placeholder
  /\ parsed.out.suggestions = Arr(<<"s">>)
  /\ parsed.out.diff = Str(<<"d">>)

\* C15: every ReviewOutput returned by an adapter's review has an explanation
\* that is a string and is not empty.
C15_ExplanationNonEmptyString ==
  parsed.op = "review" =>
    /\ parsed.out.explanation.t = "string"
    /\ parsed.out.explanation.s # <<>>

\* what the code keeps of C15: the explanation is never an empty string
C15_ExplanationNotEmpty ==
  parsed.op = "review" => Truthy(parsed.out.explanation)

\* ---- claims about the token counter ----
KnownNames == {MODEL_TOKEN_LIMITS[k].key : k \in 1..Len(MODEL_TOKEN_LIMITS)}

LimitOf(key) ==
  Number(MODEL_TOKEN_LIMITS[CHOOSE k \in 1..Len(MODEL_TOKEN_LIMITS) :
                              MODEL_TOKEN_LIMITS[k].key = key].limit)

\* the known names the id contains, letter case set aside
Contained(id) == {key \in KnownNames : includes(toLowerCase(id), toLowerCase(key))}

DefaultLimit == 4096

LimitAsClaimed(id, limit) ==
  IF id \in KnownNames THEN limit = LimitOf(id)
  ELSE IF Contained(id) # {} THEN \E key \in Contained(id) : limit = LimitOf(key)
  ELSE limit = Number(DefaultLimit)

\* C16: getModelTokenLimit returns, for an id equal to a known model name, that
\* model's limit; otherwise, for an id containing a known name, the limit of a
\* contained name; otherwise the default 4096.
C16_LimitTotal ==
  counted.op = "getModelTokenLimit" => LimitAsClaimed(counted.model, counted.limit)

\* what the code keeps of C16: the same, for ids that are not the name of a
\* property objects inherit
C16_LimitOfPlainIds ==
  (counted.op = "getModelTokenLimit" /\ counted.model \notin InheritedKeys)
    => LimitAsClaimed(counted.model, counted.limit)

Truncation == counted.op = "truncateToFitLimit"

Available == getAvailableContextTokens(counted.model, counted.reserveForResponse)

\* C17: the content truncateToFitLimit returns fits the budget (finalTokens <=
\* available, fitsWithinLimit holds for it), and wasTruncated is true exactly
\* when the original estimate exceeded the budget.
C17_TruncatedFits ==
  Truncation =>
    /\ LessEq(counted.out.finalTokens, Available)
    /\ fitsWithinLimit(counted.out.content, counted.model, counted.reserveForResponse)
    /\ counted.out.wasTruncated <=> Greater(counted.out.originalTokens, Available)

\* s = head \o marker \o tail for a head slice and a tail slice of the input
HeadMarkerTail(s, input) ==
  \E h, t \in 0..Len(input) :
    s = SubSeq(input, 1, h) \o TruncationMarker \o SubSeq(input, Len(input) - t + 1, Len(input))

\* C18: when wasTruncated, the content is strictly shorter than the input and
\* is a head slice, the marker and a tail slice of the input; when not, the
\* content is the input and finalTokens = originalTokens.
C18_TruncatedShorter ==
  Truncation =>
    IF counted.out.wasTruncated
    THEN /\ Len(counted.out.content) < Len(counted.content)
         /\ HeadMarkerTail(counted.out.content, counted.content)
    ELSE /\ counted.out.content = counted.content
         /\ counted.out.finalTokens = counted.out.originalTokens

\* what the code keeps of C18: everything but the length
C18_HeadMarkerTail ==
  Truncation =>
    IF counted.out.wasTruncated
    THEN HeadMarkerTail(counted.out.content, counted.content)
    ELSE /\ counted.out.content = counted.content
         /\ counted.out.finalTokens = counted.out.originalTokens

SplitBudget == getAvailableContextTokens(split.model, split.reserveForResponse)

\* C19: every chunk splitIntoChunks returns has an estimated token count of at
\* most getAvailableContextTokens(model, reserve): the chunks that start with
\* overlap lines and the single chunk of a short input too.
C19_ChunksWithinBudget ==
  split.pc = "done" =>
    \A k \in 1..Len(split.chunks) :
      LessEq(estimateTokenCount(split.chunks[k]), SplitBudget)

\* the line the loop is about to take is over budget and the current chunk empty
OverBudgetLineAlone ==
  /\ split.pc = "loop"
  /\ split.currentChunk = <<>>
  /\ Greater(estimateTokenCount(split.lines[split.i + 1]), SplitBudget)

\* c is the line cut to at most targetChars characters
HardTruncated(c, line) ==
  /\ Len(c) <= Len(line)
  /\ c = SubSeq(line, 1, Len(c))
  /\ SplitBudget # NaN => Len(c) = Min({Len(line), 3 * SplitBudget})

\* C20: splitIntoChunks terminates for every input (a single line over the
\* budget and a budget of zero included): the loop takes each line exactly
\* once, in order, and an over-budget line met with an empty current chunk is
\* emitted as a hard-truncated prefix of that line.
C20_TerminatesEachLineOnce ==
  /\ (split.pc = "loop") ~> (split.pc = "done")
  /\ [](split.pc = "loop" => split.visited = [k \in 1..split.i |-> k])
  /\ [](split.pc = "done" /\ split.lines # <<>>
          => split.visited = [k \in 1..Len(split.lines) |-> k])
  /\ [][OverBudgetLineAlone =>
          /\ Len(split'.chunks) = Len(split.chunks) + 1
          /\ HardTruncated(split'.chunks[Len(split'.chunks)], split.lines[split.i + 1])]_vars

C20_Witness ==
  /\ split.pc = "done"
  /\ SplitBudget = 0
  /\ split.content = <<"a", "\n", "a", "a">>
  /\ split.visited = <<1, 2>>
  /\ split.chunks = << <<>>, <<>> >>

\* C21: every chunk splitIntoChunks returns for a non-empty input is
\* non-empty, for every model, reserve and overlap.
C21_ChunksNonEmpty ==
  (split.pc = "done" /\ split.content # <<>>)
    => \A k \in 1..Len(split.chunks) : split.chunks[k] # <<>>

\* what the code keeps of C21: the same, when the reserve leaves a budget of
\* at least one token
C21_ChunksNonEmptyWithBudget ==
  (split.pc = "done" /\ split.content # <<>> /\ Greater(SplitBudget, 0))
    => \A k \in 1..Len(split.chunks) : split.chunks[k] # <<>>


\* ---- the context slicer ----
SliceCalled == sliced.op = "sliceContext"

SelectionSpan == sliced.selectionEndLine - sliced.selectionStartLine + 1

NaiveSpan ==
  LET naive == NaiveWindow(Len(splitLines(sliced.fileContent)), sliced.selectionStartLine,
                           sliced.selectionEndLine, sliced.config) IN
  naive.contextEndLine - naive.contextStartLine + 1

Recentered == SliceCalled /\ NaiveSpan > sliced.config.maxTotalLines

\* C22: whenever the selection spans at most maxTotalLines lines, the window
\* returned by sliceContext contains the whole selection, recentered or not:
\* contextStartLine <= start <= end <= contextEndLine.
C22_WindowContainsSelection ==
  (SliceCalled /\ SelectionSpan <= sliced.config.maxTotalLines) =>
    /\ sliced.out.contextStartLine <= sliced.selectionStartLine
    /\ sliced.selectionEndLine <= sliced.out.contextEndLine

\* the part of C22 that holds: a selection shorter than the limit, or one as
\* long as an odd limit, is inside the window
C22_WindowContainsShorterSelection ==
  (SliceCalled /\
   (SelectionSpan < sliced.config.maxTotalLines
    \/ (SelectionSpan = sliced.config.maxTotalLines
        /\ sliced.config.maxTotalLines % 2 = 1))) =>
    /\ sliced.out.contextStartLine <= sliced.selectionStartLine
    /\ sliced.selectionEndLine <= sliced.out.contextEndLine

SelectedLinesOf ==
  joinLines(SliceLines(splitLines(sliced.fileContent), sliced.selectionStartLine - 1,
                       sliced.selectionEndLine))

\* C24: the selection is truncated only when it alone exceeds maxCharacters:
\* a selection of at most maxCharacters characters comes back verbatim, and
\* a longer one comes back truncated with all the surrounding context dropped.
C24_SelectionVerbatimWithinBudget ==
  SliceCalled =>
    /\ Len(SelectedLinesOf) <= sliced.config.maxCharacters =>
         sliced.out.selectedCode = SelectedLinesOf
    /\ Len(SelectedLinesOf) > sliced.config.maxCharacters =>
         /\ sliced.out.selectedCode
              = SliceHead(SelectedLinesOf, sliced.config.maxCharacters) \o TruncatedMark
         /\ sliced.out.beforeContext = <<>>
         /\ sliced.out.afterContext = <<>>

\* the part of C24 that holds: a selection shorter than maxCharacters comes
\* back verbatim
C24_SelectionVerbatimBelowBudget ==
  (SliceCalled /\ Len(SelectedLinesOf) < sliced.config.maxCharacters) =>
    sliced.out.selectedCode = SelectedLinesOf

\* ---- the issue extractor ----
ScanAnswered == scanned.op = "scan" /\ scanned.out.status = 200

\* a list of strings none of which has the form LINE <start>[-<end>]: [SEVERITY] ...
NoSuggestionMatches ==
  /\ scanned.review.suggestions.t = "array"
  /\ \A i \in 1..Len(scanned.review.suggestions.s) :
       /\ scanned.review.suggestions.s[i].t = "string"
       /\ ~SuggestionMatch(scanned.review.suggestions.s[i].s).ok

\* the explanation mentions a line above 0
Mentioned ==
  /\ scanned.review.explanation.t = "string"
  /\ FromExplanation(scanned.review.explanation.s) # <<>>

AllWarnings ==
  \A i \in 1..Len(scanned.out.issues) :
    scanned.out.issues[i].severity = "warning" /\ scanned.out.issues[i].startLine > 0

\* C25: whenever no suggestion matches 'LINE <start>[-<end>]: [SEVERITY]
\* description' (the list is empty or holds only other strings), the issues
\* are the 'line <n>[-<m>]:' occurrences of the explanation, each a warning.
C25_ExplanationScannedWhenNoMatch ==
  (ScanAnswered /\ NoSuggestionMatches /\ Mentioned) =>
    /\ Len(scanned.out.issues) = Len(FromExplanation(scanned.review.explanation.s))
    /\ AllWarnings

\* no issue came out of the suggestions: an empty list, or no list at all
NoSuggestions ==
  scanned.review.suggestions.t # "array" \/ scanned.review.suggestions.s = <<>>

\* C25 as the handler has it: only when the suggestions are empty are the
\* issues those of the explanation, each a warning above line 0; a suggestion
\* of another form is an issue itself (line 1, info, its text as message) and
\* the explanation is not read.
C25_ExplanationScannedWhenNoSuggestion ==
  ScanAnswered =>
    /\ (NoSuggestions /\ Mentioned) =>
         /\ Len(scanned.out.issues) = Len(FromExplanation(scanned.review.explanation.s))
         /\ AllWarnings
    /\ ~NoSuggestions =>
         /\ Len(scanned.out.issues) = Len(scanned.review.suggestions.s)
         /\ \A i \in 1..Len(scanned.out.issues) :
              ~SuggestionMatch(scanned.review.suggestions.s[i].s).ok =>
                scanned.out.issues[i]
                  = Issue(1, 1, "info", scanned.review.suggestions.s[i].s)

\* two issues read from the explanation of a review without suggestions
C25_Witness ==
  /\ ScanAnswered
  /\ NoSuggestions
  /\ Mentioned
  /\ Len(scanned.out.issues) = 2
  /\ scanned.out.issues[2].endLine > scanned.out.issues[2].startLine

\* C26: a successful scan answers with at least one issue, every issue has
\* a severity among error, warning and info, and no two issues of the answer
\* have the same id.
C26_IssuesNonEmptyDistinctIds ==
  ScanAnswered =>
    /\ Len(scanned.out.issues) >= 1
    /\ Len(scanned.out.ids) = Len(scanned.out.issues)
    /\ \A i \in 1..Len(scanned.out.issues) :
         scanned.out.issues[i].severity \in {"error", "warning", "info"}
    /\ \A i, j \in 1..Len(scanned.out.ids) :
         i # j => scanned.out.ids[i] # scanned.out.ids[j]

\* the placeholder issues, their ids taken at one reading of the clock
C26_Witness ==
  /\ ScanAnswered
  /\ ~Mentioned
  /\ scanned.out.issues = MockIssues
  /\ scanned.out.ids[1][2] = scanned.out.ids[3][2]

\* ---- merging threads ----
MergeCalled == merged.op = "mergeThreads"

IdsOf(threads) == {threads[i].id : i \in 1..Len(threads)}

\* the thread of the list that has the id
ThreadOf(threads, id) == threads[CHOOSE i \in 1..Len(threads) : threads[i].id = id]

\* C27: mergeThreads returns exactly one thread for every id of either list
\* and no other; for an id of both lists it is the version updated later,
\* the remote one when both were updated at the same time.
C27_OneThreadPerIdLatestWins ==
  MergeCalled =>
    /\ IdsOf(merged.out) = IdsOf(merged.local) \cup IdsOf(merged.remote)
    /\ \A i, j \in 1..Len(merged.out) : i # j => merged.out[i].id # merged.out[j].id
    /\ \A i \in 1..Len(merged.out) :
         LET id == merged.out[i].id IN
         merged.out[i] =
           IF id \notin IdsOf(merged.remote) THEN ThreadOf(merged.local, id)
           ELSE IF id \notin IdsOf(merged.local) THEN ThreadOf(merged.remote, id)
           ELSE IF ThreadOf(merged.local, id).updatedAt
                     > ThreadOf(merged.remote, id).updatedAt
                THEN ThreadOf(merged.local, id)
                ELSE ThreadOf(merged.remote, id)

\* one thread on both sides updated at the same time, another one only local
C27_Witness ==
  /\ MergeCalled
  /\ \E id \in IdsOf(merged.local) \cap IdsOf(merged.remote) :
       ThreadOf(merged.local, id).updatedAt = ThreadOf(merged.remote, id).updatedAt
  /\ IdsOf(merged.local) \ IdsOf(merged.remote) # {}
  /\ Len(merged.out) = 2

\* ---- validating a selection ----
SuggestCalled == suggested.op = "suggestNonOverlappingRange"

ThreadsOfFile ==
  SelectSeq(suggested.existingThreads, LAMBDA t : t.file = FileName)

OverlapsNone(range) ==
  \A i \in 1..Len(ThreadsOfFile) : ~rangesOverlap(range, ThreadsOfFile[i].range)

\* some place in the file holds a range as long as the selection that
\* overlaps no thread
SomeGapHolds ==
  \E range \in LineRanges(suggested.totalLines) :
    /\ range.endLine - range.startLine
         = suggested.selection.endLine - suggested.selection.startLine
    /\ OverlapsNone(range)

\* C28: a range returned by suggestNonOverlappingRange overlaps no thread of
\* the file, whatever the threads (overlapping and nested ones too), and null
\* is returned only when no gap can hold the selection.
C28_SuggestedOverlapsNone ==
  SuggestCalled =>
    /\ ~suggested.out.null => OverlapsNone(suggested.out)
    /\ suggested.out.null => ~SomeGapHolds

Disjoint ==
  \A i, j \in 1..Len(ThreadsOfFile) :
    i # j => ~rangesOverlap(ThreadsOfFile[i].range, ThreadsOfFile[j].range)

\* the part of C28 that holds: among threads that do not overlap each other
\* a returned range overlaps none of them
C28_SuggestedOverlapsNoneOfDisjoint ==
  (SuggestCalled /\ Disjoint /\ ~suggested.out.null) => OverlapsNone(suggested.out)

\* ---- the sync manager ----
\* C29: however the runs of one sync manager overlap, no queued operation is
\* sent to the backend by two runs, and none is processed successfully twice.
C29_SentByOneRun ==
  \A id \in OperationIds : Cardinality(sends[id]) <= 1 /\ succeeded[id] <= 1

QueuedIds == {queue[k].id : k \in 1..Len(queue)}

Queued(id) == queue[CHOOSE k \in 1..Len(queue) : queue[k].id = id]

====
